---------------------------- MODULE Spec2Model ----------------------------
(***************************************************************************)
(* A model of the avax.webdav WSGI stack:                                  *)
(*                                                                         *)
(*   WsgiDAVApp.__call__  (routing, batch binding, commit in `finally`)    *)
(*     -> WsgiDavDebugFilter -> ErrorPrinter -> HTTPAuthenticator          *)
(*     -> WsgiDavDirBrowser -> RequestResolver -> method handler           *)
(*     -> ArchiveProvider / RepositoryProvider resources -> batch          *)
(*                                                                         *)
(* Every request is served by one thread of the WSGI server.  Strings      *)
(* (URL paths) are sequences of one-character strings, so that Python's    *)
(* strip / split / slicing are modelled by what they do.                   *)
(***************************************************************************)
EXTENDS Integers, Sequences, FiniteSets, TLC

(***************************************************************************)
(* Bounds of the model.                                                    *)
(***************************************************************************)
\* Number of requests the server accepts in one behaviour.
MaxRequests == 2
\* Largest number of body chunks of a PUT.
MaxBody == 1

\* Requests sent to a server that has accounts.
MaxAuthRequests == 1
\* Requests sent in a run with request paths of all shapes.
MaxUrlRequests == 1
\* Requests sent in a run with conditional and Depth headers.
MaxCondRequests == 2
\* Largest number of body chunks of a PUT in that run.
MaxCondBody == 2
\* Requests sent in a run with LOCK, PROPPATCH and MKCOL.
MaxLockRequests == 3
\* Requests sent in a run with COPY and MOVE.
MaxCopyRequests == 2
\* Requests sent in a run that repeats Digest requests.
MaxReplayRequests == 2
\* Requests sent in a run with concurrent writers of one document.
MaxRaceRequests == 2

\* The threads of the WSGI server (each request runs on its own thread).
Threads == {"t1", "t2"}

(***************************************************************************)
(* Python string primitives on sequences of characters.                    *)
(***************************************************************************)
Range(s) == {s[i] : i \in DOMAIN s}

\* Python's whitespace, as far as the request paths of the model use it.
WS == {" "}

RECURSIVE LStrip(_, _)
LStrip(s, cs) ==
    IF s # <<>> /\ Head(s) \in cs THEN LStrip(Tail(s), cs) ELSE s

RECURSIVE RStrip(_, _)
RStrip(s, cs) ==
    IF s # <<>> /\ s[Len(s)] \in cs
    THEN RStrip(SubSeq(s, 1, Len(s) - 1), cs)
    ELSE s

\* str.strip(chars)
Strip(s, cs) == RStrip(LStrip(s, cs), cs)

\* Index of the first occurrence of character c in s (0: none).
FirstIndex(s, c) ==
    IF c \in Range(s)
    THEN CHOOSE i \in DOMAIN s : s[i] = c /\ \A j \in 1..(i - 1) : s[j] # c
    ELSE 0

\* str.split(c, 1)[0]
BeforeFirst(s, c) == SubSeq(s, 1, FirstIndex(s, c) - 1)

\* s[n:]
Slice(s, n) == SubSeq(s, n + 1, Len(s))

StartsWith(s, p) == Len(s) >= Len(p) /\ SubSeq(s, 1, Len(p)) = p

EndsWith(s, p) ==
    Len(s) >= Len(p) /\ SubSeq(s, Len(s) - Len(p) + 1, Len(s)) = p

(***************************************************************************)
(* Providers.  WsgiDAVApp.__init__ registers the repository provider at    *)
(* '/', a filesystem provider at '/temp' and one ArchiveProvider per       *)
(* repository name at '/<name>'.                                           *)
(***************************************************************************)
NoProvider == [kind |-> "None", name |-> <<>>]
RepoProvider == [kind |-> "repo", name |-> <<>>]
FsProvider == [kind |-> "fs", name |-> <<"t", "e", "m", "p">>]
ArchiveProviderOf(name) == [kind |-> "archive", name |-> name]

\* repository.repository_names()
RepositoryNames == {<<"f">>}

\* self.providerMap.get(share)
ProviderMapGet(share) ==
    IF share = <<"/">> THEN RepoProvider
    ELSE IF share = <<"/", "t", "e", "m", "p">> THEN FsProvider
    ELSE IF Len(share) > 1 /\ Slice(share, 1) \in RepositoryNames
         THEN ArchiveProviderOf(Slice(share, 1))
    ELSE NoProvider

\* A faulty variant of READONLY_METHODS (PROPFIND forgotten), against which
\* C8_ReadOnlyIffReadonlyMethods is tested.
READONLY_METHODS_NoPropfind == {"GET", "HEAD", "OPTIONS", "PROPGET"}

\* wsgidav_app.py line 71
READONLY_METHODS == {"GET", "HEAD", "OPTIONS", "PROPFIND", "PROPGET"}

(***************************************************************************)
(* Routing: lines 284-334 of WsgiDAVApp.__call__ as a function of the      *)
(* request path and the incoming SCRIPT_NAME.                              *)
(***************************************************************************)
ArchiveName(path) ==
    LET strip_path == Strip(path, {"/"})
    IN  IF "/" \in Range(strip_path)
        THEN BeforeFirst(strip_path, "/")
        ELSE Strip(strip_path, WS)

ShareOf(path) == <<"/">> \o ArchiveName(path)

ProviderOf(path) ==
    IF ArchiveName(path) = <<>>
    THEN RepoProvider
    ELSE ProviderMapGet(ShareOf(path))

RouteScriptName(script, path) ==
    IF ShareOf(path) = <<"/">> THEN script ELSE script \o ShareOf(path)

RoutePathInfo(path) ==
    IF ShareOf(path) = <<"/">> THEN path ELSE Slice(path, Len(ShareOf(path)))

\* The three assertions on SCRIPT_NAME / PATH_INFO (lines 330-334).
RouteAssertsHold(script, path) ==
    LET sn == RouteScriptName(script, path)
        pi == RoutePathInfo(path)
    IN  /\ sn = <<>> \/ StartsWith(sn, <<"/">>)
        /\ sn \in {<<>>, <<"/">>} \/ ~EndsWith(sn, <<"/">>)
        /\ pi = <<>> \/ StartsWith(pi, <<"/">>)

(***************************************************************************)
(* The backend.  An archive holds a tree of nodes; a batch is a private    *)
(* working copy of the tree taken when the batch is opened, and commit     *)
(* publishes the paths the batch changed.  (avax.repository is an external *)
(* library: this is the interface section 4.5 of the specification         *)
(* states for it.)                                                         *)
(***************************************************************************)
Root == <<"/">>
DocA == <<"/", "a">>
PublicPath == <<"/", "p", "u", "b", "l", "i", "c">>

\* The namespace of an archive: '/', '/a', '/public', and '/b', '/a/x',
\* '/b/x' for the runs that copy and move.
TreePaths ==
    {Root, DocA, PublicPath, <<"/", "b">>, DocA \o <<"/", "x">>,
     <<"/", "b", "/", "x">>}

Absent == [kind |-> "absent", data |-> <<>>]
Folder == [kind |-> "folder", data |-> <<>>]
Doc(data) == [kind |-> "doc", data |-> data]

EmptyTree == [p \in TreePaths |-> Absent]

\* The archive behind share '/f': an empty root folder.
ArchiveTree0 == [EmptyTree EXCEPT ![Root] = Folder]

\* The archive 'files' behind the repository provider:
\* RepositoryProvider.__init__ creates '/public' in it.
RepoTree0 == [EmptyTree EXCEPT ![Root] = Folder, ![PublicPath] = Folder]

\* The archive a provider works on.
StoreKey(provider) == IF provider.kind = "repo" THEN "files" ELSE "f"

\* util.getUriParent for the paths of the model.
ParentOf(p) ==
    LET last == CHOOSE i \in DOMAIN p :
                    p[i] = "/" /\ \A j \in (i + 1)..Len(p) : p[j] # "/"
    IN  IF last = 1 THEN Root ELSE SubSeq(p, 1, last - 1)

NoBatch == 0

ClosedBatchTree == EmptyTree

\* archive.begin_batch(readonly): a fresh batch object over a snapshot.
NewBatch(rid, key, tree, ro, how) ==
    [owner |-> rid, store |-> key, readonly |-> ro, dirty |-> FALSE,
     base |-> tree, tree |-> tree, state |-> "open", commits |-> 0,
     via |-> how, users |-> {}]

\* The paths a batch has changed since it was opened.
Changed(b) == {p \in TreePaths : b.tree[p] # b.base[p]}

\* Two writers touched the same path: the backend's concurrency control
\* decides (it may reject the later commit).
Conflicts(b, committed) ==
    \E p \in Changed(b) : committed[p] # b.base[p]

\* The tree after a commit of batch b is published.
Publish(b, committed) ==
    [p \in TreePaths |-> IF p \in Changed(b) THEN b.tree[p] ELSE committed[p]]

(***************************************************************************)
(* State.                                                                  *)
(***************************************************************************)
VARIABLES
    cfg,        \* the configuration WsgiDAVApp was constructed with
    stores,     \* committed tree of each archive
    batches,    \* the batch objects ever opened: id -> batch
    req,        \* per thread: the request it is serving (environ and locals)
    nextReq,    \* serial number of the next request
    managers    \* the lock manager and the property manager of the app

vars == <<cfg, stores, batches, req, nextReq, managers>>

NoHeader ==
    [scheme |-> "none", b64ok |-> FALSE, colon |-> FALSE,
     user |-> "-", pass |-> "-", has |-> {}, realm |-> <<>>,
     algorithm |-> "-", qop |-> "-", response |-> <<>>]

\* "No resource" (Python's None) and a resource instance.
NoInst == [batch |-> NoBatch, path |-> <<>>, node |-> Absent]
Inst(bid, path, node) == [batch |-> bid, path |-> path, node |-> node]
IsNone(inst) == inst.node.kind = "absent"
\* A faulty variant of IsCollection (every resource counts as one),
\* against which C29_BrowserAnswers is tested.
IsCollection_AnyResource(inst) == inst.node.kind # "absent"

IsCollection(inst) == inst.node.kind = "folder"

\* What the error printer hands to start_response and yields; NoResponse
\* when it does neither.  Lengths count the parts a page is made of.
NoResponse == [ctype |-> "-", clen |-> -1, body |-> <<>>]

Idle ==
    [pc |-> "idle", id |-> 0, method |-> "-", path |-> <<>>,
     hdr |-> NoHeader, ctype |-> FALSE, body |-> 0, pre |-> "none",
     cond |-> "", resp |-> NoResponse, cleared |-> {},
     query |-> "", browser |-> "-",
     dest |-> <<>>, overwrite |-> TRUE, op |-> "-", wc |-> "-",
     provider |-> NoProvider, scriptName |-> <<>>, pathInfo |-> <<>>,
     batch |-> NoBatch, res |-> NoInst, written |-> 0, isnew |-> FALSE,
     todo |-> <<>>, insts |-> {}, opened |-> {}, pubs |-> 0,
     status |-> 0, err |-> "none", started |-> <<>>, escaped |-> FALSE,
     cl |-> "-", conn |-> <<>>,
     user |-> "-", realm |-> <<>>, challenge |-> "-", appCalled |-> FALSE]

\* LockManager and PropertyManager as WsgiDAVApp.__init__ creates them: the
\* refUrls that are roots of a lock, and those that have dead properties.
\* `noncedict` is the nonce store of the HTTPAuthenticator (line 143).
NoLocksNoProperties == [locks |-> {}, props |-> {}, noncedict |-> {}]

\* The methods and URL paths WebDAV clients send.
Methods == {"GET", "HEAD", "OPTIONS", "PROPFIND", "PROPGET", "PUT", "DELETE"}

UrlRoot == <<"/">>
UrlShare == <<"/", "f">>
UrlDoc == <<"/", "f", "/", "a">>
UrlNoShare == <<"/", "n">>

ReqPaths == {UrlRoot, UrlShare, UrlDoc, UrlNoShare}

\* Request paths of other shapes: several leading slashes, no leading
\* slash, whitespace around the first segment, a trailing slash, an empty
\* segment, a '..' segment, a segment below an unregistered share, and
\* the '*' of `OPTIONS *`.
OddPaths ==
    {<<"/", "/", "f", "/", "a">>,
     <<"f", "/", "a">>,
     <<"/", " ", "f">>,
     <<" ", "/", "f">>,
     <<"/", "f", "/">>,
     <<"/", "f", "/", "/", "a">>,
     <<"/", "f", "/", ".", ".", "/", "a">>,
     <<"/", "n", "/", "f">>,
     <<"/", "/">>,
     <<"*">>,
     <<>>}

\* config["provider_mapping"] of ext.py and of the tests: share -> provider.
ExtProviderMapping ==
    (<<"/">> :> RepoProvider)
    @@ (<<"/", "f", "i", "l", "e", "s">> :>
          ArchiveProviderOf(<<"f", "i", "l", "e", "s">>))
    @@ (<<"/", "t", "e", "m", "p">> :> FsProvider)
TestProviderMapping == <<>>

\* The configuration of ext.py: nobody needs to log in.  `traffic` names
\* the clients of a run (what they send), not a setting of the server.
AnonymousConfig ==
    [user_mapping |-> "none", acceptbasic |-> TRUE, acceptdigest |-> TRUE,
     defaultdigest |-> TRUE, dir_browser |-> FALSE, davmount |-> FALSE,
     readonly |-> FALSE,
     provider_mapping |-> ExtProviderMapping,
     threads |-> Threads, traffic |-> "dav"]

\* The same server with the directory browser, one worker thread.
BrowserConfig ==
    [AnonymousConfig EXCEPT !.dir_browser = TRUE, !.threads = {"t1"}]

\* Servers with the directory browser, with and without its davmount
\* option, whose clients also send query strings and GETs with a body.
MountConfigs ==
    {[BrowserConfig EXCEPT !.davmount = dm, !.traffic = "browser"] :
        dm \in BOOLEAN}

\* Servers with accounts (config["user_mapping"]), one worker thread.
AuthConfigs ==
    {[AnonymousConfig EXCEPT
        !.user_mapping = "shares", !.acceptbasic = ab, !.acceptdigest = ad,
        !.defaultdigest = dd, !.threads = {"t1"}] :
        ab \in BOOLEAN, ad \in BOOLEAN, dd \in BOOLEAN}
    \cup
    {[AnonymousConfig EXCEPT
        !.user_mapping = "test", !.provider_mapping = TestProviderMapping,
        !.threads = {"t1"}]}

\* Servers that get requests with paths of all shapes.
UrlConfigs ==
    {[AnonymousConfig EXCEPT
        !.dir_browser = db, !.threads = {"t1"}, !.traffic = "urls"] :
        db \in BOOLEAN}

\* A server whose clients send If-None-Match and Depth headers.
CondConfig ==
    [AnonymousConfig EXCEPT !.threads = {"t1"}, !.traffic = "cond"]

\* A server whose clients lock resources and set dead properties.
LockConfig ==
    [AnonymousConfig EXCEPT !.threads = {"t1"}, !.traffic = "locks"]

\* ArchiveProvider.isReadOnly / RepositoryProvider.isReadOnly
isReadOnly(provider) == FALSE

\* Servers whose clients copy and move resources of share '/f', which
\* holds a collection '/a' with a document '/a/x'; `readonly` is the
\* argument the ArchiveProviders are constructed with.
CopyConfigs ==
    {[AnonymousConfig EXCEPT
        !.readonly = ro, !.threads = {"t1"}, !.traffic = "copy"] :
        ro \in BOOLEAN}

\* A server with accounts whose clients send the same Digest header
\* again and again.
ReplayConfig ==
    [AnonymousConfig EXCEPT
        !.user_mapping = "shares", !.threads = {"t1"}, !.traffic = "replay"]

\* A server whose clients write and delete the document '/a' of share
\* '/f', which has a dead property, at the same time (two worker threads).
RaceConfig == [AnonymousConfig EXCEPT !.traffic = "race"]

Configs ==
    {AnonymousConfig, BrowserConfig, CondConfig, LockConfig, ReplayConfig,
     RaceConfig}
        \cup AuthConfigs \cup UrlConfigs \cup MountConfigs
        \cup CopyConfigs

\* How many requests a run sends to a server of configuration c.
RequestsOf(c) ==
    IF c.traffic = "urls" THEN MaxUrlRequests
    ELSE IF c.traffic = "cond" THEN MaxCondRequests
    ELSE IF c.traffic = "locks" THEN MaxLockRequests
    ELSE IF c.traffic = "copy" THEN MaxCopyRequests
    ELSE IF c.traffic = "replay" THEN MaxReplayRequests
    ELSE IF c.traffic = "race" THEN MaxRaceRequests
    ELSE IF c.user_mapping = "none" THEN MaxRequests
    ELSE MaxAuthRequests

MethodsFor(c) ==
    IF c.traffic = "urls" THEN {"GET", "OPTIONS"}
    ELSE IF c.traffic = "locks"
         THEN {"PUT", "MKCOL", "LOCK", "PROPPATCH", "DELETE"}
    ELSE IF c.traffic = "copy"
         THEN {"PUT", "MKCOL", "PROPPATCH", "DELETE", "COPY", "MOVE"}
    ELSE IF c.traffic = "replay" THEN {"GET", "PUT"}
    ELSE IF c.traffic = "race" THEN {"PUT", "DELETE"}
    ELSE Methods
PathsFor(c) ==
    IF c.traffic = "urls" THEN OddPaths
    ELSE IF c.traffic = "locks" THEN {UrlRoot, UrlShare, UrlDoc}
    ELSE IF c.traffic = "copy"
         THEN {UrlDoc, UrlShare \o <<"/", "b">>} \cup {UrlDoc \o <<"/", "x">>}
    ELSE IF c.traffic = "replay" THEN {UrlShare, UrlDoc}
    ELSE IF c.traffic = "race" THEN {UrlDoc}
    ELSE ReqPaths
\* Preconditions a request carries: none, an If-None-Match header naming
\* the current entity tag ("inm"), `Depth: infinity` ("infinity"), or an
\* `If:` header with the tokens of all locks ("tokens"), `Depth: 0`
\* ("depth0").
PreconditionsFor(c) ==
    IF c.traffic = "cond" THEN {"none", "inm", "infinity"}
    ELSE IF c.traffic = "locks" THEN {"none", "tokens"}
    ELSE IF c.traffic = "copy" THEN {"none", "depth0"}
    ELSE {"none"}

(***************************************************************************)
(* Authorization headers clients send.  A header is modelled after         *)
(* parsing: its scheme word and, for Digest, the dictionary of its fields  *)
(* (`has` is the set of keys present).  MD5 is a symbolic injective        *)
(* function: a digest is the tuple of what was hashed.                     *)
(***************************************************************************)
\* computeDigestResponse (uri, nonce, nc and cnonce are what the header says).
computeDigestResponse(username, realm, password, method, qop) ==
    IF qop # "None"
    THEN <<username, realm, password, method, "uri", "nonce",
           <<"nc", "cnonce", qop>>>>
    ELSE <<username, realm, password, method, "uri", "nonce", <<>>>>

DigestFields ==
    {"username", "realm", "algorithm", "uri", "nonce", "qop", "cnonce",
     "nc", "response"}

BasicHeader(ok, colon, user, pass) ==
    [NoHeader EXCEPT !.scheme = "basic", !.b64ok = ok, !.colon = colon,
                     !.user = user, !.pass = pass]

\* A well-formed Digest header of a client that knows `pass`.
DigestHeader(user, realm, pass) ==
    [NoHeader EXCEPT !.scheme = "digest", !.user = user, !.pass = pass,
                     !.has = DigestFields, !.realm = realm,
                     !.algorithm = "MD5", !.qop = "auth"]

GoodDigest == DigestHeader("alice", <<"/", "f">>, "pa")

HeaderTemplates ==
    {NoHeader, [NoHeader EXCEPT !.scheme = "other"],
     BasicHeader(FALSE, FALSE, "-", "-"), BasicHeader(TRUE, FALSE, "-", "-"),
     BasicHeader(TRUE, TRUE, "alice", "pa"),
     BasicHeader(TRUE, TRUE, "alice", "px"),
     BasicHeader(TRUE, TRUE, "eve", "pa"),
     BasicHeader(TRUE, TRUE, "tester", "secret"),
     GoodDigest,
     DigestHeader("alice", <<"/">>, "pa"),
     DigestHeader("alice", <<"/">>, "px"),
     DigestHeader("alice", <<"/", "F">>, "pa"),
     DigestHeader("alice", <<"/", "n">>, "pa"),
     DigestHeader("alice", <<"/", "f">>, "px"),
     DigestHeader("eve", <<"/", "f">>, "pa"),
     DigestHeader("tester", <<"/">>, "secret"),
     DigestHeader("bob", <<"/">>, "pb"),
     [GoodDigest EXCEPT !.algorithm = "SHA"],
     [GoodDigest EXCEPT !.qop = "auth-int"],
     [GoodDigest EXCEPT !.has = @ \ {"qop", "cnonce", "nc"}]}
    \cup {[GoodDigest EXCEPT !.has = @ \ {f}] : f \in DigestFields}

\* The client computes the response field over what it sends.
ClientHeader(h, method) ==
    IF h.scheme = "digest"
    THEN [h EXCEPT !.response =
            computeDigestResponse(h.user, h.realm, h.pass, method,
                                  IF "qop" \in h.has THEN h.qop ELSE "None")]
    ELSE h

\* A server that asks nobody to log in never looks at the header.
HeadersFor(c) ==
    IF c.user_mapping = "none" THEN {NoHeader}
    ELSE IF c.traffic = "replay"
         THEN {NoHeader, GoodDigest, DigestHeader("alice", <<"/", "f">>, "px")}
    ELSE HeaderTemplates

TypeOK ==
    /\ nextReq \in 1..(RequestsOf(cfg) + 1)
    /\ managers.locks \subseteq Seq({"/", "f", "a", "b", "x"})
    /\ managers.props \subseteq Seq({"/", "f", "a", "b", "x"})
    /\ managers.noncedict = {}
    /\ \A t \in Threads : req[t].pc \in
         {"idle", "auth", "browse", "resolve", "stream", "delete",
          "respond", "finally", "done"}

Init ==
    /\ cfg \in Configs
    /\ stores = [files |-> RepoTree0,
                 f |-> IF cfg.traffic = "copy"
                       THEN [ArchiveTree0 EXCEPT
                               ![DocA] = Folder,
                               ![DocA \o <<"/", "x">>] = Doc(<<0>>)]
                       ELSE IF cfg.traffic = "race"
                       THEN [ArchiveTree0 EXCEPT ![DocA] = Doc(<<0>>)]
                       ELSE ArchiveTree0]
    /\ batches = <<>>
    /\ req = [t \in Threads |-> Idle]
    /\ nextReq = 1
    /\ managers = IF cfg.traffic = "race"
                  THEN [NoLocksNoProperties EXCEPT !.props = {UrlDoc}]
                  ELSE NoLocksNoProperties

(***************************************************************************)
(* WsgiDAVApp.__call__, up to the call of the middleware stack.            *)
(***************************************************************************)
\* A faulty variant of BindBatch (the batch opened last is handed to the
\* next request too), against which C7_IndependentBatches is tested.
BindBatch_Shared(heap, rid, provider, method) ==
    IF provider.kind = "archive"
    THEN IF Len(heap) > 0 /\ heap[Len(heap)].store = StoreKey(provider)
         THEN <<heap, Len(heap)>>
         ELSE <<Append(heap, NewBatch(rid, StoreKey(provider),
                                      stores[StoreKey(provider)],
                                      method \in READONLY_METHODS, "router")),
                Len(heap) + 1>>
    ELSE <<heap, NoBatch>>

\* Lines 299-307: bind a new batch to the request of an ArchiveProvider.
\* The result is <<heap, environ['batch']>>.
BindBatch(heap, rid, provider, method) ==
    IF provider.kind = "archive"
    THEN <<Append(heap, NewBatch(rid, StoreKey(provider),
                                 stores[StoreKey(provider)],
                                 method \in READONLY_METHODS, "router")),
           Len(heap) + 1>>
    ELSE <<heap, NoBatch>>

Arrive(t) ==
    /\ req[t].pc = "idle"
    /\ t \in cfg.threads
    /\ nextReq <= RequestsOf(cfg)
    /\ \E method \in MethodsFor(cfg), path \in PathsFor(cfg),
          body \in 0..(IF cfg.traffic = "cond" THEN MaxCondBody
                       ELSE MaxBody),
          ctype \in BOOLEAN, h \in HeadersFor(cfg),
          pre \in PreconditionsFor(cfg),
          query \in IF cfg.traffic = "browser" THEN {"", "davmount"}
                    ELSE {""},
          dest \in {<<>>} \cup PathsFor(cfg), overwrite \in BOOLEAN :
        \* COPY and MOVE name a destination ('/f/b', or a path at or
        \* below the source) or forget the header; Overwrite is T or F
        /\ IF method \in {"COPY", "MOVE"}
           THEN dest \in {<<>>, UrlShare \o <<"/", "b">>}
                \/ (dest # <<>> /\ (dest = path
                                    \/ StartsWith(dest, path \o <<"/">>)))
           ELSE dest = <<>> /\ overwrite
        /\ pre = "depth0" => method = "COPY"
        /\ method # "PUT" => ctype = FALSE
        /\ (method = "PUT" \/ (cfg.traffic = "browser"
                                  /\ method \in {"GET", "HEAD"}))
             \/ body = 0
        /\ pre = "inm" => method \in {"GET", "HEAD"}
        /\ pre = "infinity" => method = "PROPFIND"
        /\ LET provider == ProviderOf(path)
               bound == BindBatch(batches, nextReq, provider, method)
               r == [Idle EXCEPT !.id = nextReq, !.method = method,
                                 !.path = path, !.body = body,
                                 !.hdr = ClientHeader(h, method),
                                 !.ctype = ctype, !.pre = pre,
                                 !.query = query, !.dest = dest,
                                 !.overwrite = overwrite,
                                 !.provider = provider,
                                 !.batch = bound[2],
                                 !.opened = IF bound[2] = NoBatch THEN {}
                                            ELSE {bound[2]},
                                 !.scriptName = RouteScriptName(<<>>, path),
                                 !.pathInfo = RoutePathInfo(path)]
           IN  /\ batches' = bound[1]
               /\ req' = [req EXCEPT ![t] =
                     IF RouteAssertsHold(<<>>, path)
                     THEN [r EXCEPT !.pc = "auth"]
                     ELSE [r EXCEPT !.pc = "done", !.err = "exc",
                                    !.escaped = TRUE]]
    /\ nextReq' = nextReq + 1
    /\ UNCHANGED <<cfg, managers, stores>>

(***************************************************************************)
(* Provider lookups.  A step of a handler works on m = [heap, r, inst]:    *)
(* the batch objects, the request record and the resource just looked up.  *)
(***************************************************************************)
M(heap, r) == [heap |-> heap, r |-> r, inst |-> NoInst]

NodeAt(tree, path) == IF path \in TreePaths THEN tree[path] ELSE Absent

Touch(heap, bid, rid) ==
    [heap EXCEPT ![bid].users = @ \cup {rid}]

\* ArchiveProvider.getResourceInst: the instance carries environ['batch'].
ArchiveGetResourceInst(m, full_path) ==
    LET path == <<"/">> \o Strip(full_path, {"/"})
        bid == m.r.batch
        node == NodeAt(m.heap[bid].tree, path)
    IN  [heap |-> Touch(m.heap, bid, m.r.id),
         r |-> IF node = Absent THEN m.r
               ELSE [m.r EXCEPT !.insts = @ \cup {bid}],
         inst |-> Inst(bid, path, node)]

\* RepositoryProvider.getResourceInst: opens a batch of its own.
RepoGetResourceInst(m, full_path) ==
    LET path == <<"/">> \o Strip(full_path, {"/"})
        bid == Len(m.heap) + 1
        b == NewBatch(m.r.id, "files", stores.files, FALSE, "lookup")
        node == NodeAt(b.tree, path)
    IN  [heap |-> Touch(Append(m.heap, b), bid, m.r.id),
         r |-> [m.r EXCEPT !.opened = @ \cup {bid},
                           !.insts = IF node = Absent THEN @
                                     ELSE @ \cup {bid}],
         inst |-> Inst(bid, path, node)]

GetResourceInst(m, full_path) ==
    IF m.r.provider.kind = "archive"
    THEN ArchiveGetResourceInst(m, full_path)
    ELSE RepoGetResourceInst(m, full_path)

\* FolderResource.getMember: the member carries the collection's batch.
GetMember(m, parent, path) ==
    LET node == NodeAt(m.heap[parent.batch].tree, path)
    IN  [heap |-> Touch(m.heap, parent.batch, m.r.id),
         r |-> [m.r EXCEPT !.insts = @ \cup {parent.batch}],
         inst |-> Inst(parent.batch, path, node)]

\* The direct members of a collection (getMemberNames).
MemberPaths(tree, path) ==
    {q \in TreePaths \ {path} : tree[q] # Absent /\ ParentOf(q) = path}

(***************************************************************************)
(* WsgiDAVDomainController over config["user_mapping"].  A user mapping is *)
(* a set of accounts [realm, user, password].                              *)
(***************************************************************************)
RealmRoot == <<"/">>
RealmF == <<"/", "f">>
NoneRealm == <<"None">>

UserMapping(name) ==
    CASE name = "none" -> {}
      [] name = "test" ->
           {[realm |-> RealmRoot, user |-> "tester", password |-> "secret"]}
      [] name = "shares" ->
           {[realm |-> RealmF, user |-> "alice", password |-> "pa"],
            [realm |-> RealmRoot, user |-> "alice", password |-> "px"],
            [realm |-> RealmRoot, user |-> "bob", password |-> "pb"]}

userMap == UserMapping(cfg.user_mapping)

\* getDomainRealm: the share path of the provider bound by the router.
getDomainRealm(provider) ==
    IF provider.kind = "None" THEN NoneRealm
    ELSE IF provider.kind = "repo" THEN RealmRoot
    ELSE <<"/">> \o provider.name

requireAuthentication(realmname) ==
    \E a \in userMap : a.realm = realmname

isRealmUser(realmname, username) ==
    \E a \in userMap : a.realm = realmname /\ a.user = username

\* A faulty variant of getRealmUserPassword (the account of realm '/' is
\* preferred), against which C34_RootLoginNeedsShareAccount is tested.
getRealmUserPassword_RootFirst(realmname, username) ==
    IF \E a \in userMap : a.user = username
    THEN (CHOOSE a \in userMap :
            /\ a.user = username
            /\ a.realm = RealmRoot
                 \/ \A b \in userMap : b.user = username => b.realm # RealmRoot
         ).password
    ELSE "None"

getRealmUserPassword(realmname, username) ==
    IF isRealmUser(realmname, username)
    THEN (CHOOSE a \in userMap :
            a.realm = realmname /\ a.user = username).password
    ELSE "None"

authDomainUser(realmname, username, password) ==
    \E a \in userMap :
        a.realm = realmname /\ a.user = username /\ a.password = password

(***************************************************************************)
(* HTTPAuthenticator.                                                      *)
(***************************************************************************)
\* str.upper() on the characters realm names are made of.
UpperChar(c) == IF c = "f" THEN "F" ELSE c
Upper(s) == [i \in DOMAIN s |-> UpperChar(s[i])]

Passed(realmname, username) ==
    [outcome |-> "pass", status |-> 0, user |-> username,
     realm |-> realmname, challenge |-> "-"]
Answered(status, challenge) ==
    [outcome |-> "status", status |-> status, user |-> "-",
     realm |-> <<>>, challenge |-> challenge]
Raised ==
    [outcome |-> "exc", status |-> 0, user |-> "-", realm |-> <<>>,
     challenge |-> "-"]

\* A faulty variant of sendBasicAuthResponse (it sends the Digest
\* challenge), against which C30_SchemeSelection is tested.
sendBasicAuthResponse_Digest == Answered(401, "digest")

sendBasicAuthResponse == Answered(401, "basic")
sendDigestAuthResponse == Answered(401, "digest")

authBasicAuthRequest(realmname, hdr) ==
    IF ~hdr.b64ok THEN Raised            \* .decode("base64") fails
    ELSE IF ~hdr.colon THEN Raised       \* username, password = ...split(":", 1)
    ELSE IF authDomainUser(realmname, hdr.user, hdr.pass)
         THEN Passed(realmname, hdr.user)
    ELSE sendBasicAuthResponse

\* Lines 254-336: the checks that set isinvalidreq before the digest is
\* compared.
DigestInvalid(realmname, hdr) ==
    \/ "username" \notin hdr.has
    \/ ~isRealmUser(realmname, hdr.user)
    \/ /\ "realm" \in hdr.has
       /\ Upper(hdr.realm) # Upper(realmname)
       /\ Upper(hdr.realm) # <<"/">>
    \/ "algorithm" \in hdr.has /\ hdr.algorithm # "MD5"
    \/ "nonce" \notin hdr.has
    \/ "qop" \in hdr.has /\ hdr.qop # "auth"
    \/ "qop" \in hdr.has /\ "cnonce" \notin hdr.has
    \/ "qop" \in hdr.has /\ "nc" \notin hdr.has
    \/ "response" \notin hdr.has

\* A faulty variant of authDigestAuthRequest (only a nonce found in the
\* nonce store is accepted), against which C33_DigestReplayAccepted is
\* tested.
authDigestAuthRequest_KnownNonce(realmname, method, hdr) ==
    IF DigestInvalid(realmname, hdr) \/ "nonce" \notin managers.noncedict
    THEN sendDigestAuthResponse
    ELSE Passed(realmname, hdr.user)

\* authDigestAuthRequest (lines 250-366).  The nonce and the nonce count
\* of the header only enter the digest; self._noncedict is not used.
authDigestAuthRequest(realmname, method, hdr) ==
    LET req_qop == IF "qop" \in hdr.has THEN hdr.qop ELSE "None"
        req_password == getRealmUserPassword(realmname, hdr.user)
        required_digest ==
            computeDigestResponse(hdr.user, realmname, req_password,
                                  method, req_qop)
        root_digest ==
            computeDigestResponse(hdr.user, <<"/">>, req_password,
                                  method, req_qop)
    IN  IF DigestInvalid(realmname, hdr)
        THEN IF "username" \notin hdr.has
             THEN Raised                 \* req_username is unbound at line 361
             ELSE sendDigestAuthResponse
        ELSE IF "uri" \notin hdr.has
             THEN Raised                 \* req_uri is unbound at line 343
        ELSE IF required_digest = hdr.response \/ root_digest = hdr.response
             THEN Passed(realmname, hdr.user)
        ELSE sendDigestAuthResponse

\* A faulty variant of Authenticator (the name the client sent is recorded
\* for a realm that asks for no login), against which
\* C12_ContextHoldsValidatedName is tested.
Authenticator_RecordsClientName(provider, method, hdr) ==
    LET realmname == getDomainRealm(provider)
    IN  IF ~requireAuthentication(realmname)
        THEN Passed(realmname, hdr.user)
        ELSE IF hdr.scheme = "digest" /\ cfg.acceptdigest
             THEN authDigestAuthRequest(realmname, method, hdr)
             ELSE IF hdr.scheme = "basic" /\ cfg.acceptbasic
             THEN authBasicAuthRequest(realmname, hdr)
             ELSE sendDigestAuthResponse

\* HTTPAuthenticator.__call__
Authenticator(provider, method, hdr) ==
    LET realmname == getDomainRealm(provider)
    IN  IF ~requireAuthentication(realmname)
        THEN Passed(realmname, "")
        ELSE IF hdr.scheme # "none"
             THEN IF hdr.scheme = "digest" /\ cfg.acceptdigest
                  THEN authDigestAuthRequest(realmname, method, hdr)
                  ELSE IF hdr.scheme = "digest" /\ cfg.acceptbasic
                  THEN sendBasicAuthResponse
                  ELSE IF hdr.scheme = "basic" /\ cfg.acceptbasic
                  THEN authBasicAuthRequest(realmname, hdr)
                  ELSE Answered(400, "-")
        ELSE IF cfg.defaultdigest THEN sendDigestAuthResponse
        ELSE sendBasicAuthResponse

\* A faulty variant of Authenticate (the resource is looked up before the
\* credentials are checked, as if the directory browser stood above the
\* authenticator), against which C37_RefusedTouchesNothing is tested.
Authenticate_AfterLookup(t) ==
    /\ req[t].pc = "auth"
    /\ LET m == IF req[t].provider.kind # "None"
                THEN GetResourceInst(M(batches, req[t]), req[t].pathInfo)
                ELSE M(batches, req[t])
           r == m.r
           a == Authenticator(r.provider, r.method, r.hdr)
       IN  /\ batches' = m.heap
           /\ req' = [req EXCEPT ![t] =
               CASE a.outcome = "pass" ->
                      [r EXCEPT !.pc = IF cfg.dir_browser THEN "browse"
                                       ELSE "resolve",
                                !.user = a.user, !.realm = a.realm,
                                !.appCalled = TRUE]
                 [] a.outcome = "status" ->
                      [r EXCEPT !.pc = "respond", !.status = a.status,
                                !.challenge = a.challenge]
                 [] a.outcome = "exc" ->
                      [r EXCEPT !.pc = "respond", !.err = "exc"]]
    /\ UNCHANGED <<cfg, managers, stores, nextReq>>

Authenticate(t) ==
    /\ req[t].pc = "auth"
    /\ LET r == req[t]
           a == Authenticator(r.provider, r.method, r.hdr)
       IN  req' = [req EXCEPT ![t] =
               CASE a.outcome = "pass" ->
                      [r EXCEPT !.pc = IF cfg.dir_browser THEN "browse"
                                       ELSE "resolve",
                                !.user = a.user, !.realm = a.realm,
                                !.appCalled = TRUE]
                 [] a.outcome = "status" ->
                      [r EXCEPT !.pc = "respond", !.status = a.status,
                                !.challenge = a.challenge]
                 [] a.outcome = "exc" ->
                      [r EXCEPT !.pc = "respond", !.err = "exc"]]
    /\ UNCHANGED <<cfg, managers, stores, batches, nextReq>>

(***************************************************************************)
(* Responses.  A handler either calls start_response(status) and returns   *)
(* its body, or raises a DAVError(status), or raises another exception.    *)
(***************************************************************************)
Reply(r, status) == [r EXCEPT !.pc = "respond", !.status = status]
RaiseDAVError(r, status) ==
    [r EXCEPT !.pc = "respond", !.err = "dav", !.status = status]
\* DAVError(status, errcondition=cond)
RaiseDAVErrorCondition(r, status, cond) ==
    [r EXCEPT !.pc = "respond", !.err = "dav", !.status = status,
              !.cond = cond]
PRECONDITION_CODE_PropfindFiniteDepth ==
    "{DAV:}propfind-finite-depth"
RaiseException(r) == [r EXCEPT !.pc = "respond", !.err = "exc"]

(***************************************************************************)
(* WsgiDavDirBrowser.__call__                                              *)
(***************************************************************************)
\* _listDirectory: every member of the collection is instantiated.
RECURSIVE ListMembers(_, _, _)
ListMembers(m, parent, paths) ==
    IF paths = {} THEN m
    ELSE LET p == CHOOSE q \in paths : TRUE
         IN  ListMembers(GetMember(m, parent, p), parent, paths \ {p})

MembersOf(m, inst) ==
    ListMembers(m, inst, MemberPaths(m.heap[inst.batch].tree, inst.path))

DirBrowser(t) ==
    /\ req[t].pc = "browse"
    /\ LET r == req[t]
           m == IF r.provider.kind # "None"
                THEN GetResourceInst(M(batches, r), r.pathInfo)
                ELSE M(batches, r)
           davres == m.inst
       IN  IF r.method \in {"GET", "HEAD"} /\ IsCollection(davres)
           THEN IF r.body # 0
                THEN \* self._fail(HTTP_MEDIATYPE_NOT_SUPPORTED, ...)
                     /\ batches' = m.heap
                     /\ req' = [req EXCEPT ![t] =
                           [RaiseDAVError(m.r, 415) EXCEPT
                              !.browser = "fail"]]
                ELSE IF r.method = "HEAD"
                THEN /\ batches' = m.heap
                     /\ req' = [req EXCEPT ![t] =
                           [Reply(m.r, 200) EXCEPT !.browser = "head"]]
                ELSE IF cfg.davmount /\ r.query = "davmount"
                THEN \* the <dm:mount> document (RFC 4709)
                     /\ batches' = m.heap
                     /\ req' = [req EXCEPT ![t] =
                           [Reply(m.r, 200) EXCEPT !.browser = "davmount"]]
                ELSE LET l == MembersOf(m, davres)
                     IN  /\ batches' = l.heap
                         /\ req' = [req EXCEPT ![t] =
                               [Reply(l.r, 200) EXCEPT
                                  !.browser = "listing"]]
           ELSE /\ batches' = m.heap
                /\ req' = [req EXCEPT ![t] = [m.r EXCEPT !.pc = "resolve"]]
    /\ UNCHANGED <<cfg, managers, stores, nextReq>>

(***************************************************************************)
(* RequestResolver and the method handlers (section 4.2).                  *)
(***************************************************************************)
\* No provider is bound: OPTIONS is answered, everything else is 404.
NoProviderResponse(t) ==
    /\ req[t].pc = "resolve"
    /\ req[t].provider.kind = "None"
    /\ req' = [req EXCEPT ![t] =
          IF req[t].method = "OPTIONS"
          THEN Reply(req[t], 200)
          ELSE RaiseDAVError(req[t], 404)]
    /\ UNCHANGED <<cfg, managers, stores, batches, nextReq>>

\* A method the engine does not implement.
DoUnsupported(t) ==
    /\ req[t].pc = "resolve"
    /\ req[t].provider.kind # "None"
    /\ req[t].method \notin
         {"GET", "HEAD", "OPTIONS", "PROPFIND", "PUT", "DELETE",
          "MKCOL", "LOCK", "PROPPATCH", "COPY", "MOVE"}
    /\ req' = [req EXCEPT ![t] = RaiseDAVError(req[t], 501)]
    /\ UNCHANGED <<cfg, managers, stores, batches, nextReq>>

\* GET, HEAD, OPTIONS, PROPFIND.
DoRead(t) ==
    /\ req[t].pc = "resolve"
    /\ req[t].provider.kind # "None"
    /\ req[t].method \in {"GET", "HEAD", "OPTIONS", "PROPFIND"}
    /\ LET r == req[t]
           m == GetResourceInst(M(batches, r), r.pathInfo)
           res == m.inst
           l == MembersOf(m, res)
       IN  CASE r.method = "OPTIONS" ->
                  /\ batches' = m.heap
                  /\ req' = [req EXCEPT ![t] = Reply(m.r, 200)]
             [] r.method # "OPTIONS" /\ r.body # 0 ->
                  /\ batches' = m.heap
                  /\ req' = [req EXCEPT ![t] = RaiseDAVError(m.r, 415)]
             [] r.method # "OPTIONS" /\ r.body = 0 /\ IsNone(res) ->
                  /\ batches' = m.heap
                  /\ req' = [req EXCEPT ![t] = RaiseDAVError(m.r, 404)]
             [] r.method = "PROPFIND" /\ ~IsNone(res)
                    /\ r.pre = "infinity" ->
                  \E reject \in BOOLEAN :
                     IF reject
                     THEN /\ batches' = m.heap
                          /\ req' = [req EXCEPT ![t] =
                                RaiseDAVErrorCondition(m.r, 403,
                                    PRECONDITION_CODE_PropfindFiniteDepth)]
                     ELSE /\ batches' = l.heap
                          /\ req' = [req EXCEPT ![t] = Reply(l.r, 207)]
             [] r.method = "PROPFIND" /\ ~IsNone(res)
                    /\ r.pre # "infinity" ->
                  /\ batches' = l.heap
                  /\ req' = [req EXCEPT ![t] = Reply(l.r, 207)]
             [] r.method \in {"GET", "HEAD"} /\ r.body = 0
                    /\ IsCollection(res) ->
                  /\ batches' = m.heap
                  /\ req' = [req EXCEPT ![t] = RaiseDAVError(m.r, 405)]
             [] r.method \in {"GET", "HEAD"} /\ r.body = 0
                    /\ res.node.kind = "doc" ->
                  /\ batches' = m.heap
                  /\ req' = [req EXCEPT ![t] =
                        IF r.pre = "inm" THEN RaiseDAVError(m.r, 304)
                        ELSE Reply(m.r, 200)]
    /\ UNCHANGED <<cfg, managers, stores, nextReq>>

(***************************************************************************)
(* Batch and resource operations of the providers.                         *)
(***************************************************************************)
SetNode(heap, bid, rid, path, node) ==
    [heap EXCEPT ![bid].tree[path] = node, ![bid].users = @ \cup {rid}]

MarkDirty(heap, bid) == [heap EXCEPT ![bid].dirty = TRUE]

\* archive_provider.FolderResource.createEmptyResource
ArchiveCreateEmptyResource(m, parent, path) ==
    LET created == MarkDirty(SetNode(m.heap, parent.batch, m.r.id,
                                     path, Doc(<<>>)),
                             parent.batch)
    IN  GetResourceInst([m EXCEPT !.heap = created], path)

\* archive_provider.FileResource.beginWrite: the stream starts empty.
ArchiveBeginWrite(m, res, contentType) ==
    LET opened == SetNode(m.heap, res.batch, m.r.id, res.path, Doc(<<>>))
    IN  [m EXCEPT !.heap = IF contentType THEN MarkDirty(opened, res.batch)
                           ELSE opened]

\* archive_provider.FolderResource.createCollection
ArchiveCreateCollection(m, parent, path) ==
    MarkDirty(SetNode(m.heap, parent.batch, m.r.id, path, Folder),
              parent.batch)

\* batch.remove_folder(path): the folder and everything below it.
RemoveFolder(tree, path) ==
    [p \in TreePaths |->
        IF p = path \/ path = Root \/ StartsWith(p, path \o <<"/">>)
        THEN Absent ELSE tree[p]]

(***************************************************************************)
(* Locks and dead properties (sections 4.3 and 4.4).  Both managers are    *)
(* keyed by refUrl; they belong to the application, not to a batch.        *)
(***************************************************************************)
\* DAVResource.getRefUrl: share path and path inside the share.
RefUrl(provider, path) ==
    LET share == IF provider.kind = "repo" THEN <<>>
                 ELSE <<"/">> \o provider.name
    IN  IF path # Root THEN share \o path
        ELSE IF share = <<>> THEN Root
        ELSE share

\* A faulty variant of AtOrUnder (only the URL itself), against which
\* C26_NoCopyIntoItself is tested.
AtOrUnder_EqualOnly(key, src) == key = src

\* "key is src or starts with src + '/'"
AtOrUnder(key, src) == key = src \/ StartsWith(key, src \o <<"/">>)

\* PropertyManager.removeProperties(refUrl, withChildren)
removeProperties(mgr, refUrl, withChildren) ==
    [mgr EXCEPT !.props =
        {k \in @ : IF withChildren THEN ~AtOrUnder(k, refUrl)
                   ELSE k # refUrl}]

\* LockManager: drop the locks rooted at refUrl (and inside it).
removeAllLocksFromUrl(mgr, refUrl, withChildren) ==
    [mgr EXCEPT !.locks =
        {k \in @ : IF withChildren THEN ~AtOrUnder(k, refUrl)
                   ELSE k # refUrl}]

\* DAVResource.removeAllProperties(recursive) / removeAllLocks(recursive)
removeAllProperties(mgr, provider, res, recursive) ==
    removeProperties(mgr, RefUrl(provider, res.path), recursive)
removeAllLocks(mgr, provider, res, recursive) ==
    removeAllLocksFromUrl(mgr, RefUrl(provider, res.path), recursive)

\* The locks a request on url has to hold: those covering url and those
\* inside it.
LocksAround(mgr, url) ==
    {k \in mgr.locks : AtOrUnder(url, k) \/ AtOrUnder(k, url)}

\* A mutating request without the tokens of the locks around its target.
MissingLockToken(mgr, r, url) ==
    r.pre # "tokens" /\ LocksAround(mgr, url) # {}

\* The locks and dead properties that are in `before` and not in `after`.
Cleared(before, after) ==
    {<<"lock", k>> : k \in before.locks \ after.locks}
        \cup {<<"prop", k>> : k \in before.props \ after.props}

PRECONDITION_CODE_MissingLockToken == "{DAV:}lock-token-submitted"
PRECONDITION_CODE_LockConflict == "{DAV:}no-conflicting-lock"

\* archive_provider.FileResource.delete: <<heap, managers>> afterwards.
ArchiveFileDelete(heap, mgr, rid, provider, res) ==
    <<SetNode(heap, res.batch, rid, res.path, Absent),
      removeAllLocks(removeAllProperties(mgr, provider, res, TRUE),
                     provider, res, TRUE)>>

\* A faulty variant of ArchiveFolderDelete (the locks are left alone),
\* against which C20_DeleteClearsLocksAndProperties is tested.
ArchiveFolderDelete_KeepsLocks(heap, mgr, rid, provider, res, removed) ==
    <<IF removed
      THEN [heap EXCEPT ![res.batch].tree = RemoveFolder(@, res.path)]
      ELSE heap,
      removeAllProperties(mgr, provider, res, TRUE)>>

\* archive_provider.FolderResource.delete: a failure of remove_folder
\* (removed = FALSE) is logged and swallowed.
ArchiveFolderDelete(heap, mgr, rid, provider, res, removed) ==
    <<IF removed
      THEN [heap EXCEPT ![res.batch].tree = RemoveFolder(@, res.path)]
      ELSE heap,
      removeAllLocks(removeAllProperties(mgr, provider, res, TRUE),
                     provider, res, TRUE)>>

\* repo_provider.FolderResource.delete up to its commit.
RepoFolderDelete(heap, mgr, rid, provider, bid, path) ==
    <<[heap EXCEPT ![bid].tree = RemoveFolder(@, path),
                   ![bid].users = @ \cup {rid}],
      removeAllLocks(
          removeAllProperties(mgr, provider, [path |-> path], TRUE),
          provider, [path |-> path], TRUE)>>

\* batch.commit() of batch bid, which the backend accepts.
Committed(heap, bid, rid) ==
    LET b == heap[bid]
        now == IF b.readonly THEN stores[b.store]
               ELSE Publish(b, stores[b.store])
    IN  [heap EXCEPT ![bid].state = "committed", ![bid].commits = @ + 1,
                     ![bid].users = @ \cup {rid},
                     ![bid].base = now, ![bid].tree = now]

\* batch.commit() of batch bid, which the backend rejects: commit raises.
Rejected(heap, bid, rid) ==
    [heap EXCEPT ![bid].state = "failed", ![bid].commits = @ + 1,
                 ![bid].users = @ \cup {rid}]

StoresAfterCommit(b) ==
    IF b.readonly THEN stores
    ELSE [stores EXCEPT ![b.store] = Publish(b, @)]

\* Whether a commit of b makes mutations visible to other requests.
Publishes(b) == ~b.readonly /\ Changed(b) # {}

(***************************************************************************)
(* PUT                                                                     *)
(***************************************************************************)
DoPUT(t) ==
    /\ req[t].pc = "resolve"
    /\ req[t].provider.kind # "None"
    /\ req[t].method = "PUT"
    /\ LET r == req[t]
           m1 == GetResourceInst(M(batches, r), r.pathInfo)
           res == m1.inst
           m2 == GetResourceInst(m1, ParentOf(res.path))
           parentRes == m2.inst
           m3 == IF IsNone(res)
                 THEN ArchiveCreateEmptyResource(m2, parentRes, res.path)
                 ELSE [m2 EXCEPT !.inst = res]
           m4 == ArchiveBeginWrite(m3, m3.inst, r.ctype)
       IN  IF IsNone(parentRes) \/ ~IsCollection(parentRes)
           THEN /\ batches' = m2.heap
                /\ req' = [req EXCEPT ![t] = RaiseDAVError(m2.r, 409)]
           ELSE IF IsCollection(res)
           THEN /\ batches' = m2.heap
                /\ req' = [req EXCEPT ![t] = RaiseDAVError(m2.r, 405)]
           ELSE IF MissingLockToken(managers, r,
                                    RefUrl(r.provider, res.path))
           THEN /\ batches' = m2.heap
                /\ req' = [req EXCEPT ![t] =
                      RaiseDAVErrorCondition(m2.r, 423,
                          PRECONDITION_CODE_MissingLockToken)]
           ELSE IF r.provider.kind = "archive" /\ cfg.readonly
           THEN \* createEmptyResource / beginWrite of a read-only
                \* provider raise DAVError(HTTP_FORBIDDEN)
                /\ batches' = m2.heap
                /\ req' = [req EXCEPT ![t] =
                      [RaiseDAVError(m2.r, 403) EXCEPT
                         !.op = IF IsNone(res) THEN "createEmptyResource"
                                ELSE "beginWrite"]]
           ELSE /\ batches' = m4.heap
                /\ req' = [req EXCEPT ![t] =
                      [m4.r EXCEPT !.pc = "stream", !.res = m3.inst,
                                   !.isnew = IsNone(res), !.written = 0,
                                   !.op = "beginWrite"]]
    /\ UNCHANGED <<cfg, managers, stores, nextReq>>

\* One chunk of the request body is read and written to the stream.
WriteChunk(t) ==
    /\ req[t].pc = "stream"
    /\ req[t].written < req[t].body
    /\ LET r == req[t]
           old == batches[r.res.batch].tree[r.res.path]
       IN  /\ batches' = SetNode(batches, r.res.batch, r.id, r.res.path,
                                 Doc(Append(old.data, r.id)))
           /\ req' = [req EXCEPT ![t].written = @ + 1]
    /\ UNCHANGED <<cfg, managers, stores, nextReq>>

\* Reading the body or closing the stream fails (the client went away):
\* endWrite(withErrors=True), then DAVError 500.
StreamError(t) ==
    /\ req[t].pc = "stream"
    /\ req' = [req EXCEPT ![t] = RaiseDAVError(req[t], 500)]
    /\ UNCHANGED <<cfg, managers, stores, batches, nextReq>>

\* The body is complete: endWrite(withErrors=False), 201 or 204.
EndPUT(t) ==
    /\ req[t].pc = "stream"
    /\ req[t].written = req[t].body
    /\ req' = [req EXCEPT ![t] =
          Reply(req[t], IF req[t].isnew THEN 201 ELSE 204)]
    /\ UNCHANGED <<cfg, managers, stores, batches, nextReq>>

(***************************************************************************)
(* DELETE                                                                  *)
(***************************************************************************)
\* The resources a file-by-file DELETE removes: members first, then self.
RECURSIVE SeqOf(_)
SeqOf(S) ==
    IF S = {} THEN <<>>
    ELSE LET x == CHOOSE y \in S : TRUE IN <<x>> \o SeqOf(S \ {x})

DeleteOrder(tree, path) == SeqOf(MemberPaths(tree, path)) \o <<path>>

DoDELETE(t) ==
    /\ req[t].pc = "resolve"
    /\ req[t].provider.kind # "None"
    /\ req[t].method = "DELETE"
    /\ LET r == req[t]
           m == GetResourceInst(M(batches, r), r.pathInfo)
           res == m.inst
           tree == m.heap[res.batch].tree
           url == RefUrl(r.provider, res.path)
       IN  IF IsNone(res)
           THEN /\ batches' = m.heap
                /\ managers' = managers
                /\ req' = [req EXCEPT ![t] = RaiseDAVError(m.r, 404)]
           ELSE IF MissingLockToken(managers, r, url)
           THEN /\ batches' = m.heap
                /\ managers' = managers
                /\ req' = [req EXCEPT ![t] =
                      RaiseDAVErrorCondition(m.r, 423,
                          PRECONDITION_CODE_MissingLockToken)]
           ELSE IF r.provider.kind = "archive" /\ cfg.readonly
           THEN \* delete of a read-only provider raises
                \* DAVError(HTTP_FORBIDDEN)
                /\ batches' = m.heap
                /\ managers' = managers
                /\ req' = [req EXCEPT ![t] =
                      [RaiseDAVError(m.r, 403) EXCEPT
                         !.op = IF IsCollection(res) THEN "handleDelete"
                                ELSE "delete"]]
           ELSE IF r.provider.kind = "archive" /\ IsCollection(res)
           THEN \* archive FolderResource.handleDelete -> delete()
                \E removed \in BOOLEAN :
                    LET d == ArchiveFolderDelete(m.heap, managers, r.id,
                                                 r.provider, res, removed)
                    IN  /\ batches' = d[1]
                        /\ managers' = d[2]
                        /\ req' = [req EXCEPT ![t] =
                              [Reply(m.r, 204) EXCEPT
                                 !.cleared = Cleared(managers, d[2]),
                                 !.op = "handleDelete"]]
           ELSE IF r.provider.kind = "archive"
           THEN \* archive FileResource.delete
                LET d == ArchiveFileDelete(m.heap, managers, r.id,
                                           r.provider, res)
                IN  /\ batches' = d[1]
                    /\ managers' = d[2]
                    /\ req' = [req EXCEPT ![t] =
                          [Reply(m.r, 204) EXCEPT
                             !.cleared = Cleared(managers, d[2]),
                             !.op = "delete"]]
           ELSE \* repository resources have no handleDelete: the engine
                \* deletes resource by resource
                /\ batches' = m.heap
                /\ managers' = managers
                /\ req' = [req EXCEPT ![t] =
                      [m.r EXCEPT !.pc = "delete", !.res = res,
                                  !.todo = DeleteOrder(tree, res.path)]]
    /\ UNCHANGED <<cfg, stores, nextReq>>

\* repo_provider FolderResource.delete / FileResource.delete of the next
\* resource: remove it in the batch and commit at once.
DeleteNext(t) ==
    /\ req[t].pc = "delete"
    /\ LET r == req[t]
           bid == r.res.batch
           d == RepoFolderDelete(batches, managers, r.id, r.provider, bid,
                                 Head(r.todo))
           removed == d[1]
           b == removed[bid]
       IN  \E accepted \in BOOLEAN :
             /\ ~accepted => Conflicts(b, stores[b.store])
             /\ managers' = d[2]
             /\ IF accepted
                THEN /\ batches' = Committed(removed, bid, r.id)
                     /\ stores' = [stores EXCEPT ![b.store] = Publish(b, @)]
                     /\ req' = [req EXCEPT ![t] =
                           IF Len(r.todo) = 1
                           THEN [Reply(r, 204) EXCEPT
                                   !.todo = <<>>,
                                   !.cleared = @ \cup Cleared(managers, d[2]),
                                   !.pubs = @ + (IF Publishes(b) THEN 1 ELSE 0)]
                           ELSE [r EXCEPT
                                   !.todo = Tail(@),
                                   !.cleared = @ \cup Cleared(managers, d[2]),
                                   !.pubs = @ + (IF Publishes(b) THEN 1 ELSE 0)]]
                ELSE /\ batches' = Rejected(removed, bid, r.id)
                     /\ stores' = stores
                     /\ req' = [req EXCEPT ![t] =
                           [Reply(r, 207) EXCEPT
                              !.todo = <<>>,
                              !.cleared = @ \cup Cleared(managers, d[2])]]
    /\ UNCHANGED <<cfg, nextReq>>

(***************************************************************************)
(* MKCOL, LOCK, PROPPATCH                                                  *)
(***************************************************************************)
DoMKCOL(t) ==
    /\ req[t].pc = "resolve"
    /\ req[t].provider.kind # "None"
    /\ req[t].method = "MKCOL"
    /\ LET r == req[t]
           m1 == GetResourceInst(M(batches, r), r.pathInfo)
           res == m1.inst
           m2 == GetResourceInst(m1, ParentOf(res.path))
           parentRes == m2.inst
           url == RefUrl(r.provider, res.path)
       IN  IF r.body # 0
           THEN /\ batches' = m1.heap
                /\ req' = [req EXCEPT ![t] = RaiseDAVError(m1.r, 415)]
           ELSE IF ~IsNone(res)
           THEN /\ batches' = m1.heap
                /\ req' = [req EXCEPT ![t] = RaiseDAVError(m1.r, 405)]
           ELSE IF IsNone(parentRes) \/ ~IsCollection(parentRes)
           THEN /\ batches' = m2.heap
                /\ req' = [req EXCEPT ![t] = RaiseDAVError(m2.r, 409)]
           ELSE IF MissingLockToken(managers, r, url)
           THEN /\ batches' = m2.heap
                /\ req' = [req EXCEPT ![t] =
                      RaiseDAVErrorCondition(m2.r, 423,
                          PRECONDITION_CODE_MissingLockToken)]
           ELSE IF r.provider.kind = "archive" /\ cfg.readonly
           THEN /\ batches' = m2.heap
                /\ req' = [req EXCEPT ![t] =
                      [RaiseDAVError(m2.r, 403) EXCEPT
                         !.op = "createCollection"]]
           ELSE /\ batches' = ArchiveCreateCollection(m2, parentRes,
                                                      res.path)
                /\ req' = [req EXCEPT ![t] =
                      [Reply(m2.r, 201) EXCEPT !.op = "createCollection"]]
    /\ UNCHANGED <<cfg, managers, stores, nextReq>>

\* LOCK: a new exclusive depth-infinity lock rooted at the target, a
\* refresh of the locks whose tokens are submitted, or 423.  A target
\* that does not exist becomes a locked placeholder.
DoLOCK(t) ==
    /\ req[t].pc = "resolve"
    /\ req[t].provider.kind # "None"
    /\ req[t].method = "LOCK"
    /\ LET r == req[t]
           m1 == GetResourceInst(M(batches, r), r.pathInfo)
           res == m1.inst
           m2 == GetResourceInst(m1, ParentOf(res.path))
           parentRes == m2.inst
           m3 == ArchiveCreateEmptyResource(m2, parentRes, res.path)
           url == RefUrl(r.provider, res.path)
           locked == [managers EXCEPT !.locks = @ \cup {url}]
       IN  IF LocksAround(managers, url) # {}
           THEN /\ batches' = m1.heap
                /\ managers' = managers
                /\ req' = [req EXCEPT ![t] =
                      IF r.pre = "tokens" /\ url \in managers.locks
                      THEN Reply(m1.r, 200)
                      ELSE RaiseDAVErrorCondition(m1.r, 423,
                               PRECONDITION_CODE_LockConflict)]
           ELSE IF ~IsNone(res)
           THEN /\ batches' = m1.heap
                /\ managers' = locked
                /\ req' = [req EXCEPT ![t] = Reply(m1.r, 200)]
           ELSE IF IsNone(parentRes) \/ ~IsCollection(parentRes)
           THEN /\ batches' = m2.heap
                /\ managers' = managers
                /\ req' = [req EXCEPT ![t] = RaiseDAVError(m2.r, 409)]
           ELSE IF r.provider.kind = "archive" /\ cfg.readonly
           THEN /\ batches' = m2.heap
                /\ managers' = managers
                /\ req' = [req EXCEPT ![t] =
                      [RaiseDAVError(m2.r, 403) EXCEPT
                         !.op = "createEmptyResource"]]
           ELSE /\ batches' = m3.heap
                /\ managers' = locked
                /\ req' = [req EXCEPT ![t] =
                      [Reply(m3.r, 201) EXCEPT
                         !.op = "createEmptyResource"]]
    /\ UNCHANGED <<cfg, stores, nextReq>>

\* PROPPATCH: a dead property of the target is set.
DoPROPPATCH(t) ==
    /\ req[t].pc = "resolve"
    /\ req[t].provider.kind # "None"
    /\ req[t].method = "PROPPATCH"
    /\ LET r == req[t]
           m == GetResourceInst(M(batches, r), r.pathInfo)
           res == m.inst
           url == RefUrl(r.provider, res.path)
       IN  /\ batches' = m.heap
           /\ IF IsNone(res)
              THEN /\ managers' = managers
                   /\ req' = [req EXCEPT ![t] = RaiseDAVError(m.r, 404)]
              ELSE IF MissingLockToken(managers, r, url)
              THEN /\ managers' = managers
                   /\ req' = [req EXCEPT ![t] =
                         RaiseDAVErrorCondition(m.r, 423,
                             PRECONDITION_CODE_MissingLockToken)]
              ELSE /\ managers' = [managers EXCEPT !.props = @ \cup {url}]
                   /\ req' = [req EXCEPT ![t] = Reply(m.r, 207)]
    /\ UNCHANGED <<cfg, stores, nextReq>>

(***************************************************************************)
(* COPY and MOVE inside an archive share.                                  *)
(***************************************************************************)
\* batch.copy_item / batch.move_item(src, dst, overwrite=True): the node
\* at src and everything below it is at dst afterwards, in place of what
\* was there.
CopyMoveItem(tree, src, dst, isMove) ==
    [p \in TreePaths |->
        IF AtOrUnder(p, dst) THEN NodeAt(tree, src \o Slice(p, Len(dst)))
        ELSE IF isMove /\ AtOrUnder(p, src) THEN Absent
        ELSE tree[p]]

\* PropertyManager.moveProperties(srcUrl, destUrl, withChildren)
moveProperties(mgr, srcUrl, destUrl, withChildren) ==
    LET moved == {k \in mgr.props :
                    IF withChildren THEN AtOrUnder(k, srcUrl)
                    ELSE k = srcUrl}
    IN  [mgr EXCEPT !.props =
            (@ \ moved)
                \cup {destUrl \o Slice(k, Len(srcUrl)) : k \in moved}]

\* PropertyManager.copyProperties(srcUrl, destUrl)
copyProperties(mgr, srcUrl, destUrl) ==
    [mgr EXCEPT !.props = IF srcUrl \in @ THEN @ \cup {destUrl} ELSE @]

\* archive_provider.FolderResource.handleCopy / handleMove: the batch
\* copies or moves the item; the method returns True ("handled").
ArchiveFolderHandleCopyMove(heap, rid, res, destPath, isMove) ==
    MarkDirty([Touch(heap, res.batch, rid) EXCEPT
                 ![res.batch].tree =
                     CopyMoveItem(@, res.path, destPath, isMove)],
              res.batch)

\* archive_provider.FileResource.copyMoveSingle: <<heap, managers>>
\* afterwards.
ArchiveFileCopyMoveSingle(heap, mgr, rid, provider, res, destPath, isMove) ==
    <<[Touch(heap, res.batch, rid) EXCEPT
         ![res.batch].tree = CopyMoveItem(@, res.path, destPath, isMove)],
      IF isMove
      THEN moveProperties(mgr, RefUrl(provider, res.path),
                          RefUrl(provider, destPath), FALSE)
      ELSE copyProperties(mgr, RefUrl(provider, res.path),
                          RefUrl(provider, destPath))>>

\* archive_provider.FileResource.moveRecursive: <<heap, managers>>
\* afterwards.
ArchiveFileMoveRecursive(heap, mgr, rid, provider, res, destPath) ==
    <<MarkDirty([Touch(heap, res.batch, rid) EXCEPT
                   ![res.batch].tree =
                       CopyMoveItem(@, res.path, destPath, TRUE)],
                res.batch),
      moveProperties(mgr, RefUrl(provider, res.path),
                     RefUrl(provider, destPath), TRUE)>>

\* COPY / MOVE of the method engine.  After its checks the engine offers
\* the request to the source's handleCopy / handleMove; when that returns
\* False (the default of DAVResource, which FileResource keeps) it deletes
\* an existing destination, uses moveRecursive for a MOVE when
\* supportRecursiveMove() says so, and copyMoveSingle otherwise.  `op` is
\* the resource operation that did the work (or refused it), `wc` the
\* withChildren argument moveProperties was called with.
DoCopyMove(t) ==
    /\ req[t].pc = "resolve"
    /\ req[t].provider.kind = "archive"
    /\ req[t].method \in {"COPY", "MOVE"}
    /\ LET r == req[t]
           isMove == r.method = "MOVE"
           m1 == GetResourceInst(M(batches, r), r.pathInfo)
           src == m1.inst
           m2 == GetResourceInst(m1, RoutePathInfo(r.dest))
           dst == m2.inst
           m3 == GetResourceInst(m2, ParentOf(dst.path))
           destParent == m3.inst
           success == IF IsNone(dst) THEN 201 ELSE 204
           cleaned == IF IsNone(dst) THEN <<m3.heap, managers>>
                      ELSE IF IsCollection(dst)
                      THEN ArchiveFolderDelete(m3.heap, managers, r.id,
                                               r.provider, dst, TRUE)
                      ELSE ArchiveFileDelete(m3.heap, managers, r.id,
                                             r.provider, dst)
           done == IF isMove
                   THEN ArchiveFileMoveRecursive(cleaned[1], cleaned[2],
                            r.id, r.provider, src, dst.path)
                   ELSE ArchiveFileCopyMoveSingle(cleaned[1], cleaned[2],
                            r.id, r.provider, src, dst.path, FALSE)
       IN  IF IsNone(src)
           THEN /\ batches' = m1.heap
                /\ managers' = managers
                /\ req' = [req EXCEPT ![t] = RaiseDAVError(m1.r, 404)]
           ELSE IF r.dest = <<>>
           THEN /\ batches' = m1.heap
                /\ managers' = managers
                /\ req' = [req EXCEPT ![t] = RaiseDAVError(m1.r, 400)]
           ELSE IF AtOrUnder(dst.path, src.path)
           THEN /\ batches' = m2.heap
                /\ managers' = managers
                /\ req' = [req EXCEPT ![t] = RaiseDAVError(m2.r, 409)]
           ELSE IF IsNone(destParent) \/ ~IsCollection(destParent)
           THEN /\ batches' = m3.heap
                /\ managers' = managers
                /\ req' = [req EXCEPT ![t] = RaiseDAVError(m3.r, 409)]
           ELSE IF ~IsNone(dst) /\ ~r.overwrite
           THEN /\ batches' = m3.heap
                /\ managers' = managers
                /\ req' = [req EXCEPT ![t] = RaiseDAVError(m3.r, 412)]
           ELSE IF MissingLockToken(managers, r,
                                    RefUrl(r.provider, dst.path))
                   \/ (isMove /\ MissingLockToken(managers, r,
                                     RefUrl(r.provider, src.path)))
           THEN /\ batches' = m3.heap
                /\ managers' = managers
                /\ req' = [req EXCEPT ![t] =
                      RaiseDAVErrorCondition(m3.r, 423,
                          PRECONDITION_CODE_MissingLockToken)]
           ELSE IF IsCollection(src)
           THEN \* FolderResource.handleCopy / handleMove return True
                /\ batches' = ArchiveFolderHandleCopyMove(m3.heap, r.id,
                                  src, dst.path, isMove)
                /\ managers' = managers
                /\ req' = [req EXCEPT ![t] =
                      [Reply(m3.r, success) EXCEPT
                         !.op = IF isMove THEN "handleMove"
                                ELSE "handleCopy"]]
           ELSE IF cfg.readonly
           THEN \* delete, moveRecursive and copyMoveSingle of a
                \* read-only provider raise DAVError(HTTP_FORBIDDEN)
                /\ batches' = m3.heap
                /\ managers' = managers
                /\ req' = [req EXCEPT ![t] =
                      [RaiseDAVError(m3.r, 403) EXCEPT
                         !.op = IF ~IsNone(dst) THEN "delete"
                                ELSE IF isMove THEN "moveRecursive"
                                ELSE "copyMoveSingle"]]
           ELSE /\ batches' = done[1]
                /\ managers' = done[2]
                /\ req' = [req EXCEPT ![t] =
                      [Reply(m3.r, success) EXCEPT
                         !.op = IF isMove THEN "moveRecursive"
                                ELSE "copyMoveSingle",
                         !.wc = IF isMove THEN "true" ELSE "-"]]
    /\ UNCHANGED <<cfg, stores, nextReq>>

(***************************************************************************)
(* The way back: ErrorPrinter, WsgiDavDebugFilter, WsgiDAVApp's            *)
(* _start_response_wrapper and the server's start_response.                *)
(***************************************************************************)
\* ErrorPrinter.__call__ and the `except Exception` of WsgiDAVApp.__call__:
\* what reaches the server's start_response.
StartResponse(r) ==
    CASE r.err = "none" -> <<r.status>>     \* passed on with the first chunk
      [] r.err = "dav" -> <<r.status>>      \* the DAVError's own status
      [] r.err = "exc" -> <<>>              \* re-raised, then only logged

\* DAVError.getResponsePage: <<content type, page>>.
getResponsePage(status, cond) ==
    IF cond # ""
    THEN <<"application/xml", <<"<error>", cond, "</error>">>>>
    ELSE <<"text/html; charset=utf-8",
           <<"<html>", "<title>", status, "<h1>", status, "</html>">>>>

\* A faulty variant of ErrorPrinterResponse (no branch for 304 and 204),
\* against which C19_ErrorPrinterAnswers is tested.
ErrorPrinterResponse_AlwaysPage(method, status, cond) ==
    LET page == getResponsePage(status, cond)
    IN  [ctype |-> page[1], clen |-> Len(page[2]),
         body |-> IF method = "HEAD" THEN <<>> ELSE page[2]]

\* ErrorPrinter.__call__, `except DAVError` (lines 81-115): the headers
\* given to start_response and the body yielded.
ErrorPrinterResponse(method, status, cond) ==
    IF status \in {304, 204}
    THEN [ctype |-> "-", clen |-> 0, body |-> <<>>]
    ELSE LET page == getResponsePage(status, cond)
         IN  [ctype |-> page[1], clen |-> Len(page[2]),
              body |-> IF method = "HEAD" THEN <<>> ELSE page[2]]

\* Whether request input is left unread when the response starts.  A PUT
\* marks the input as partly read with its first chunk and as read with
\* its last; util.readAndDiscardInput reads what is left unless a handler
\* has begun to read.
InputLeft(r) == r.body # 0 /\ 0 < r.written /\ r.written < r.body

\* _start_response_wrapper (lines 338-383): the Connection headers of the
\* response after the wrapper.  contentLength is the Content-Length the
\* application passed ("absent": None, "empty": '', "str": another str,
\* "int": a value that is not a str), connection its Connection headers.
StartResponseWrapper(method, statusCode, contentLength, connection, unread) ==
    LET contentLengthRequired ==
            method # "HEAD" /\ statusCode >= 200
                /\ statusCode \notin {204, 304}
        forceCloseConnection ==
            \/ IF contentLengthRequired
                     /\ contentLength \in {"absent", "empty"}
               THEN TRUE
               ELSE contentLength \notin {"empty", "str"}
            \/ unread
        current == IF connection = <<>> THEN "absent"
                   ELSE connection[Len(connection)]
    IN  IF forceCloseConnection /\ current # "close"
        THEN Append(connection, "close")
        ELSE connection

\* The response is started.  The applications of this package pass a
\* Content-Length that is a str; a document whose backend does not tell
\* its length is sent without the header.
Respond(t) ==
    /\ req[t].pc = "respond"
    /\ \E cl \in {"str", "absent"} :
         /\ cl = "absent" =>
                /\ cfg.traffic = "cond"
                /\ req[t].err = "none" /\ req[t].status = 200
                /\ req[t].method \in {"GET", "HEAD"}
         /\ req' = [req EXCEPT
               ![t].pc = "finally",
               ![t].started = StartResponse(req[t]),
               ![t].cl = IF StartResponse(req[t]) = <<>> THEN "-" ELSE cl,
               ![t].conn =
                   IF StartResponse(req[t]) = <<>> THEN <<>>
                   ELSE StartResponseWrapper(req[t].method, req[t].status,
                            cl, <<>>, InputLeft(req[t])),
               ![t].resp =
                   IF req[t].err = "dav"
                   THEN ErrorPrinterResponse(req[t].method,
                            req[t].status, req[t].cond)
                   ELSE NoResponse]
    /\ UNCHANGED <<cfg, managers, stores, batches, nextReq>>

(***************************************************************************)
(* WsgiDAVApp.__call__, the `finally` clause (lines 444-449).              *)
(***************************************************************************)
\* A faulty variant of AfterCommit (the `del` forgotten), against which
\* C3_BatchLifecycle is tested.
AfterCommit_KeepsBatch(r, b) ==
    [r EXCEPT !.pc = "done",
              !.pubs = @ + (IF Publishes(b) THEN 1 ELSE 0)]

\* The request record after `batch.commit(); del environ['batch']`.
AfterCommit(r, b) ==
    [r EXCEPT !.pc = "done", !.batch = NoBatch,
              !.pubs = @ + (IF Publishes(b) THEN 1 ELSE 0)]

\* The request record when batch.commit() raises: `del` is not reached and
\* the exception leaves __call__.
AfterFailedCommit(r) == [r EXCEPT !.pc = "done", !.escaped = TRUE]

Finally(t) ==
    /\ req[t].pc = "finally"
    /\ LET r == req[t]
           b == batches[r.batch]
       IN  IF r.batch = NoBatch
           THEN /\ req' = [req EXCEPT ![t].pc = "done"]
                /\ UNCHANGED <<stores, batches>>
           ELSE \E accepted \in BOOLEAN :
                  /\ ~accepted => Conflicts(b, stores[b.store])
                  /\ IF accepted
                     THEN /\ batches' = Committed(batches, r.batch, r.id)
                          /\ stores' = StoresAfterCommit(b)
                          /\ req' = [req EXCEPT ![t] = AfterCommit(r, b)]
                     ELSE /\ batches' = Rejected(batches, r.batch, r.id)
                          /\ stores' = stores
                          /\ req' = [req EXCEPT ![t] = AfterFailedCommit(r)]
    /\ UNCHANGED <<cfg, managers, nextReq>>

\* A batch object nothing refers to any more: only its identity is left.
Unreferenced(b) ==
    [NewBatch(b.owner, b.store, ClosedBatchTree, FALSE, "none")
       EXCEPT !.state = "unreferenced"]

\* The server is done with the request: environ and the resource
\* instances are dropped; the thread takes the next request.
Finish(t) ==
    /\ req[t].pc = "done"
    /\ req' = [req EXCEPT ![t] = Idle]
    /\ batches' = [i \in DOMAIN batches |->
                     IF batches[i].owner = req[t].id
                     THEN Unreferenced(batches[i])
                     ELSE batches[i]]
    /\ UNCHANGED <<cfg, managers, stores, nextReq>>

Next ==
    \E t \in Threads :
        \/ Arrive(t)
        \/ Authenticate(t)
        \/ DirBrowser(t)
        \/ NoProviderResponse(t)
        \/ DoUnsupported(t)
        \/ DoRead(t)
        \/ DoPUT(t)
        \/ WriteChunk(t)
        \/ StreamError(t)
        \/ EndPUT(t)
        \/ DoDELETE(t)
        \/ DeleteNext(t)
        \/ DoMKCOL(t)
        \/ DoLOCK(t)
        \/ DoPROPPATCH(t)
        \/ DoCopyMove(t)
        \/ Respond(t)
        \/ Finally(t)
        \/ Finish(t)

Spec == Init /\ [][Next]_vars

(***************************************************************************)
(* Properties.                                                             *)
(***************************************************************************)
\* C1: a request on an archive share whose handling ends in an error (a
\* DAVError or another exception) never has its batch committed.
C1_ErrorNeverCommits ==
    \A t \in Threads :
        (req[t].provider.kind = "archive" /\ req[t].err # "none") =>
            \A b \in req[t].opened :
                batches[b].via = "router" => batches[b].commits = 0

\* C2: when the success status (201/204) of a PUT on an archive share has
\* been issued, the request's batch has been committed.
C2_SuccessAfterCommit ==
    \A t \in Threads :
        (/\ req[t].method = "PUT"
         /\ req[t].provider.kind = "archive"
         /\ req[t].started \in {<<201>>, <<204>>}) =>
            \A b \in req[t].opened :
                batches[b].via = "router" => batches[b].state = "committed"

C4_FailedPutInvisible ==
    \A t \in Threads :
        (/\ req[t].method = "PUT"
         /\ req[t].err = "dav"
         /\ req[t].status = 500) => req[t].pubs = 0

\* C5: a request publishes mutations only at its single commit when its
\* handling is over, never while it is still being handled.
C5_VisibleOnlyAtFinalCommit ==
    \A t \in Threads :
        /\ req[t].pc # "done" => req[t].pubs = 0
        /\ req[t].pubs <= 1

\* C6: a request whose commit the backend rejected has answered 409 or 500.
C6_RejectedCommitAnswered ==
    \A t \in Threads :
        (/\ req[t].pc = "done"
         /\ \E b \in req[t].opened :
                batches[b].via = "router" /\ batches[b].state = "failed") =>
            req[t].started \in {<<409>>, <<500>>}

\* C7: the batches of two requests in progress are distinct, and a batch
\* is read, mutated and committed only by the request it was opened for.
C7_IndependentBatches ==
    /\ \A i \in DOMAIN batches : batches[i].users \subseteq {batches[i].owner}
    /\ \A t1, t2 \in Threads :
           (t1 # t2 /\ req[t1].pc # "idle" /\ req[t2].pc # "idle") =>
               /\ req[t1].opened \cap req[t2].opened = {}
               /\ req[t1].batch # NoBatch => req[t1].batch # req[t2].batch

\* C7 happens: two requests on the same archive are in progress, each has
\* used its batch and one of them has mutated its own.
C7_Witness ==
    \E t1, t2 \in Threads :
        /\ t1 # t2
        /\ req[t1].batch # NoBatch /\ req[t2].batch # NoBatch
        /\ req[t1].pc = "respond" /\ req[t2].pc = "respond"
        /\ batches[req[t1].batch].store = batches[req[t2].batch].store
        /\ batches[req[t1].batch].users = {req[t1].id}
        /\ batches[req[t2].batch].users = {req[t2].id}
        /\ Changed(batches[req[t1].batch]) # {}

\* C8 as the specification states it: the batch bound to a request is
\* read-only iff the method is GET, HEAD, OPTIONS or PROPFIND.
C8_ReadOnlyIffFourMethods ==
    \A t \in Threads :
        (req[t].pc # "idle" /\ req[t].batch # NoBatch) =>
            (batches[req[t].batch].readonly <=>
               req[t].method \in {"GET", "HEAD", "OPTIONS", "PROPFIND"})

\* C8 amended: the batch bound to a request is read-only iff the method is
\* GET, HEAD, OPTIONS, PROPFIND or PROPGET, and writable otherwise.
C8_ReadOnlyIffReadonlyMethods ==
    \A t \in Threads :
        (req[t].pc # "idle" /\ req[t].batch # NoBatch) =>
            (batches[req[t].batch].readonly <=>
               req[t].method \in
                 {"GET", "HEAD", "OPTIONS", "PROPFIND", "PROPGET"})

\* C8 happens: a PROPGET request holds a read-only batch while a PUT
\* request holds a writable one.
C8_Witness ==
    \E t1, t2 \in Threads :
        /\ req[t1].method = "PROPGET" /\ req[t1].batch # NoBatch
        /\ batches[req[t1].batch].readonly
        /\ req[t2].method = "PUT" /\ req[t2].batch # NoBatch
        /\ ~batches[req[t2].batch].readonly

\* C9: every resource instance a request has created carries the batch
\* exposed on the request context, and no other.
C9_InstancesCarryRequestBatch ==
    \A t \in Threads :
        req[t].pc \in {"browse", "resolve", "stream", "delete", "respond",
                       "finally"} =>
            req[t].insts \subseteq {req[t].batch}

\* C10: in a realm that requires authentication the protected application
\* is called only for credentials that validate for the realm, and every
\* other request is answered 401 or 400 without calling it.
C10_AuthGate ==
    \A t \in Threads :
        LET r == req[t]
            realm == getDomainRealm(r.provider)
            h == r.hdr
            valid ==
                \E a \in userMap :
                    /\ a.realm = realm /\ a.user = h.user
                    /\ \/ /\ h.scheme = "basic" /\ h.b64ok /\ h.colon
                          /\ a.password = h.pass
                       \/ /\ h.scheme = "digest"
                          /\ {"username", "response"} \subseteq h.has
                          /\ \E rr \in {realm, <<"/">>},
                                q \in {"auth", "None"} :
                                 h.response =
                                   computeDigestResponse(h.user, rr,
                                       a.password, r.method, q)
        IN  (r.pc \notin {"idle", "auth"} /\ requireAuthentication(realm)) =>
                /\ r.appCalled => valid
                /\ ~valid => /\ ~r.appCalled
                             /\ r.err = "none"
                             /\ r.status \in {400, 401}

\* C11: when the user mapping has users for the root realm '/', every
\* request without credentials is answered 401 and the protected
\* application is not called, whatever the path.
C11_AnonymousGets401 ==
    \A t \in Threads :
        (/\ requireAuthentication(RealmRoot)
         /\ req[t].hdr.scheme = "none"
         /\ req[t].pc \notin {"idle", "auth"}) =>
            /\ ~req[t].appCalled
            /\ req[t].status = 401

\* C12: when the authenticator has passed a request on, the request
\* context holds the realm of the request and the user name: the validated
\* name if the realm requires authentication, the empty name otherwise.
C12_ContextHoldsValidatedName ==
    \A t \in Threads :
        LET r == req[t]
            realm == getDomainRealm(r.provider)
            h == r.hdr
            validated ==
                \E a \in userMap :
                    /\ a.realm = realm /\ a.user = h.user
                    /\ \/ /\ h.scheme = "basic" /\ h.b64ok /\ h.colon
                          /\ a.password = h.pass
                       \/ /\ h.scheme = "digest"
                          /\ {"username", "response"} \subseteq h.has
                          /\ \E rr \in {realm, <<"/">>},
                                q \in {"auth", "None"} :
                                 h.response =
                                   computeDigestResponse(h.user, rr,
                                       a.password, r.method, q)
        IN  r.appCalled =>
                /\ r.realm = realm
                /\ IF requireAuthentication(realm)
                   THEN r.user = h.user /\ validated
                   ELSE r.user = ""

\* C12 happens: a Digest login of alice was validated and passed on.
C12_Witness ==
    \E t \in Threads :
        /\ req[t].appCalled
        /\ requireAuthentication(getDomainRealm(req[t].provider))
        /\ req[t].hdr.scheme = "digest"
        /\ req[t].user = "alice"
        /\ req[t].realm = RealmF

\* C13: every request is bound to the provider of the longest registered
\* share that matches its path, the root share matching every path.
C13_LongestShareWins ==
    \A t \in Threads :
        LET path == req[t].path
            shares == {<<"/">>, <<"/", "t", "e", "m", "p">>}
                      \cup {<<"/">> \o n : n \in RepositoryNames}
            matching == {r \in shares :
                           \/ r = <<"/">>
                           \/ path = r
                           \/ StartsWith(path, r \o <<"/">>)}
            best == CHOOSE r \in matching :
                        \A q \in matching : Len(q) <= Len(r)
        IN  req[t].pc # "idle" => req[t].provider = ProviderMapGet(best)

\* C14: after routing the script name is empty or starts with '/' and has
\* no trailing '/', the path info is empty or starts with '/', and the
\* request was not ended by these checks.
C14_RoutedNamesWellFormed ==
    \A t \in Threads :
        LET sn == req[t].scriptName
            pi == req[t].pathInfo
        IN  req[t].pc # "idle" =>
                /\ sn = <<>> \/ Head(sn) = "/"
                /\ sn = <<>> \/ sn[Len(sn)] # "/"
                /\ pi = <<>> \/ Head(pi) = "/"
                /\ ~(req[t].escaped /\ ~req[t].appCalled
                     /\ req[t].started = <<>> /\ req[t].status = 0)

\* C15: routing only splits the URL: the script name (the share, or
\* nothing for the root share) followed by the path info is the request
\* path.
C15_RoutingOnlySplits ==
    \A t \in Threads :
        req[t].pc # "idle" =>
            req[t].scriptName \o req[t].pathInfo = req[t].path

\* C16: a request whose path has a '..' segment is answered 400 and causes
\* no provider lookup.
C16_DotDotRejected ==
    \A t \in Threads :
        LET path == req[t].path
            dotdot ==
                \E i \in 1..(Len(path) - 1) :
                    /\ path[i] = "." /\ path[i + 1] = "."
                    /\ i = 1 \/ path[i - 1] = "/"
                    /\ i + 1 = Len(path) \/ path[i + 2] = "/"
        IN  dotdot =>
                /\ req[t].pc \in {"browse", "resolve", "respond", "finally"}
                     => \A b \in req[t].opened : batches[b].users = {}
                /\ req[t].pc \in {"finally", "done"}
                     => req[t].started = <<400>>

\* C17: a request whose share is a key of provider_mapping is bound to the
\* provider mapped there, and every provider that serves a request is one
\* provider_mapping registers.
C17_ProviderMappingRoutes ==
    \A t \in Threads :
        LET path == req[t].path
            mapping == cfg.provider_mapping
        IN  req[t].pc # "idle" =>
                /\ \A k \in DOMAIN mapping :
                       (k # <<"/">> /\ (path = k \/ StartsWith(path, k \o <<"/">>)))
                           => req[t].provider = mapping[k]
                /\ req[t].provider.kind # "None" =>
                       \E k \in DOMAIN mapping : mapping[k] = req[t].provider


\* C18: an exception that is not a DAVError and is raised below the error
\* printer (authenticator, directory browser, handlers) is answered with a
\* 500 response: the request is never left without a response.
C18_ExceptionAnsweredWith500 ==
    \A t \in Threads :
        (req[t].pc = "finally" /\ req[t].err = "exc")
          => req[t].started = <<500>>


\* C19 (as stated): a DAVError is answered with its status and an empty
\* body with Content-Length 0 for 204 and 304, else an application/xml
\* <error> body naming the condition if there is one, else an HTML page;
\* Content-Length always equals the length of the body sent.
C19_ContentLengthIsBodyLength ==
    \A t \in Threads :
        LET r == req[t]
            xml == <<"<error>", r.cond, "</error>">>
        IN  (r.pc \in {"finally", "done"} /\ r.err = "dav") =>
                /\ r.started = <<r.status>>
                /\ r.status \in {204, 304}
                     => r.resp.body = <<>> /\ r.resp.clen = 0
                /\ (r.status \notin {204, 304} /\ r.cond # "")
                     => r.resp.ctype = "application/xml" /\ r.resp.body = xml
                /\ (r.status \notin {204, 304} /\ r.cond = "")
                     => /\ r.resp.ctype = "text/html; charset=utf-8"
                        /\ r.resp.body # <<>>
                        /\ r.resp.body[1] = "<html>"
                /\ r.resp.clen = Len(r.resp.body)

\* C19 (amended): as above, but the page is the body sent only when the
\* method is not HEAD; a HEAD request gets the headers of the page,
\* Content-Length included, and an empty body.
C19_ErrorPrinterAnswers ==
    \A t \in Threads :
        LET r == req[t]
            xml == <<"<error>", r.cond, "</error>">>
            sent(page) == IF r.method = "HEAD" THEN <<>> ELSE page
        IN  (r.pc \in {"finally", "done"} /\ r.err = "dav") =>
                /\ r.started = <<r.status>>
                /\ r.status \in {204, 304}
                     => r.resp.body = <<>> /\ r.resp.clen = 0
                /\ (r.status \notin {204, 304} /\ r.cond # "")
                     => /\ r.resp.ctype = "application/xml"
                        /\ r.resp.body = sent(xml)
                        /\ r.resp.clen = Len(xml)
                /\ (r.status \notin {204, 304} /\ r.cond = "")
                     => /\ r.resp.ctype = "text/html; charset=utf-8"
                        /\ r.resp.clen > 0
                        /\ r.method = "HEAD" => r.resp.body = <<>>
                        /\ r.method # "HEAD"
                             => /\ Len(r.resp.body) = r.resp.clen
                                /\ r.resp.body[1] = "<html>"

\* A HEAD request answered by the error printer; so are, in other
\* behaviours, a 304 and an error with a condition.
C19_Witness ==
    \E t \in Threads :
        /\ req[t].pc = "finally" /\ req[t].err = "dav"
        /\ req[t].method = "HEAD" /\ req[t].status = 404
        /\ req[t].resp.clen > 0 /\ req[t].resp.body = <<>>


C21_FailedRemovalReported ==
    \A t \in Threads :
        LET r == req[t]
            target == <<"/">> \o Strip(r.pathInfo, {"/"})
        IN  (r.method = "DELETE" /\ r.provider.kind = "archive"
                /\ r.pc \in {"respond", "finally"}
                /\ r.err = "none" /\ r.status = 204)
              => NodeAt(batches[r.batch].tree, target) = Absent


\* C30: in a realm that requires authentication, a request without an
\* Authorization header gets 401 with a Digest challenge if defaultdigest
\* and a Basic challenge otherwise; a Digest header is validated only if
\* acceptdigest, and gets a Basic challenge if only Basic is accepted; a
\* Basic header is validated only if acceptbasic; every other header
\* gets 400.
C30_SchemeSelection ==
    \A t \in Threads :
        LET r == req[t]
            scheme == r.hdr.scheme
            validated ==
                \/ scheme = "digest" /\ cfg.acceptdigest
                \/ scheme = "basic" /\ cfg.acceptbasic
            challenged(c) ==
                r.status = 401 /\ r.challenge = c /\ ~r.appCalled
        IN  (requireAuthentication(getDomainRealm(r.provider))
                /\ r.pc \notin {"idle", "auth"})
              => /\ scheme = "none" =>
                      challenged(IF cfg.defaultdigest THEN "digest"
                                 ELSE "basic")
                 /\ (scheme = "digest" /\ ~cfg.acceptdigest
                        /\ cfg.acceptbasic) => challenged("basic")
                 /\ (scheme # "none" /\ ~validated
                        /\ ~(scheme = "digest" /\ cfg.acceptbasic))
                      => r.status = 400 /\ ~r.appCalled
                 /\ validated => r.status # 400
                 /\ r.appCalled => validated

\* A Digest header sent to a server that accepts only Basic has been
\* answered with the Basic challenge.
C30_Witness ==
    \E t \in Threads :
        /\ req[t].pc = "finally" /\ req[t].hdr.scheme = "digest"
        /\ ~cfg.acceptdigest /\ cfg.acceptbasic
        /\ req[t].status = 401 /\ req[t].challenge = "basic"


\* C27: when a PUT on an archive share that was answered 201 or 204
\* completes, the committed document at its path holds exactly the body
\* it sent (so that a later GET returns it); and a batch opened for a
\* request starts from the tree committed so far.
C27_PutThenGet ==
    [][\A t \in Threads :
         LET r == req[t]
             target == <<"/">> \o Strip(r.pathInfo, {"/"})
             B == [i \in 1..r.body |-> r.id]
         IN  /\ (r.method = "PUT" /\ r.provider.kind = "archive"
                    /\ r.pc = "finally" /\ req'[t].pc = "done"
                    /\ r.started \in {<<201>>, <<204>>})
                  => NodeAt(stores'[StoreKey(r.provider)], target) = Doc(B)
             /\ (r.pc = "idle" /\ req'[t].pc # "idle"
                    /\ req'[t].batch # NoBatch)
                  => batches'[req'[t].batch].tree
                       = stores[StoreKey(req'[t].provider)]]_vars

\* C28: a GET of a path with no resource is answered 404, a request
\* answered 404 publishes nothing, and when a DELETE on an archive share
\* that was answered 204 completes, no resource is committed at its path
\* (so that a later GET is answered 404 and a later PUT creates it).
C28_DeletedIsGone ==
    [][\A t \in Threads :
         LET r == req[t]
             target == <<"/">> \o Strip(r.pathInfo, {"/"})
         IN  /\ (r.method = "GET" /\ r.provider.kind = "archive"
                    /\ r.pc = "respond" /\ r.appCalled /\ r.body = 0
                    /\ NodeAt(batches[r.batch].tree, target) = Absent)
                  => r.status = 404
             /\ (r.method \in {"GET", "DELETE"} /\ r.status = 404)
                  => req'[t].pubs = 0 /\ managers' = managers
             /\ (r.method = "DELETE" /\ r.provider.kind = "archive"
                    /\ r.pc = "finally" /\ req'[t].pc = "done"
                    /\ r.started = <<204>>)
                  => NodeAt(stores'[StoreKey(r.provider)], target) = Absent
      ]_vars

C22_ReadOnlyRefuses ==
    [][\A t \in Threads :
          (/\ cfg.readonly
           /\ req[t].provider.kind = "archive"
           /\ req[t].op = "-" /\ req'[t].op # "-")
            => /\ req'[t].err = "dav" /\ req'[t].status = 403
               /\ managers' = managers
               /\ \A b \in DOMAIN batches :
                     batches'[b].tree = batches[b].tree
      ]_vars

\* C23: after a successful COPY or MOVE on an archive share the
\* destination has the dead properties the source had before the request,
\* and after a MOVE no dead property is keyed at the source URL.
C23_PropertiesFollow ==
    [][\A t \in Threads :
          LET r == req[t]
              srcUrl == RefUrl(r.provider,
                               <<"/">> \o Strip(r.pathInfo, {"/"}))
              destUrl == RefUrl(r.provider,
                            <<"/">> \o Strip(RoutePathInfo(r.dest), {"/"}))
          IN  (/\ r.pc = "resolve" /\ r.method \in {"COPY", "MOVE"}
               /\ r.provider.kind = "archive"
               /\ req'[t].pc = "respond" /\ req'[t].err = "none"
               /\ req'[t].status \in {201, 204})
                => /\ srcUrl \in managers.props
                        => destUrl \in managers'.props
                   /\ r.method = "MOVE" => srcUrl \notin managers'.props
      ]_vars

\* C24: a successful MOVE transfers the dead properties with
\* withChildren=true when the moved resource is a collection and with
\* withChildren=false when it is a document.
C24_WithChildrenForCollections ==
    \A t \in Threads :
        LET r == req[t]
            destPath == <<"/">> \o Strip(RoutePathInfo(r.dest), {"/"})
        IN  (/\ r.method = "MOVE" /\ r.provider.kind = "archive"
             /\ r.pc \in {"respond", "finally"} /\ r.err = "none"
             /\ r.status \in {201, 204})
              => r.wc = IF NodeAt(batches[r.batch].tree, destPath).kind
                             = "folder"
                        THEN "true" ELSE "false"

\* C25: a successful COPY of a collection with Depth: 0 leaves a
\* destination collection without members.
C25_DepthZeroCopiesNoDescendants ==
    \A t \in Threads :
        LET r == req[t]
            destPath == <<"/">> \o Strip(RoutePathInfo(r.dest), {"/"})
            tree == batches[r.batch].tree
        IN  (/\ r.method = "COPY" /\ r.pre = "depth0"
             /\ r.provider.kind = "archive"
             /\ r.pc \in {"respond", "finally"} /\ r.err = "none"
             /\ r.status \in {201, 204}
             /\ NodeAt(tree, destPath).kind = "folder")
              => \A p \in TreePaths :
                    StartsWith(p, destPath \o <<"/">>) => tree[p] = Absent

C31_OptionsStarUnbound ==
    \A t \in Threads :
        (req[t].method = "OPTIONS" /\ req[t].path = <<"*">>
            /\ req[t].pc # "idle")
          => /\ req[t].provider = NoProvider
             /\ req[t].batch = NoBatch /\ req[t].opened = {}
             /\ req[t].scriptName = <<>>
             /\ req[t].pathInfo = <<"*">>


\* C32: a provider's isReadOnly() is true exactly when the provider was
\* constructed read-only, so it is true for every provider whose resources
\* refuse a mutating operation with 403.
C32_DeclaredReadOnly ==
    \A t \in Threads :
        LET r == req[t]
        IN  (r.provider.kind = "archive" /\ r.pc # "idle")
              => /\ isReadOnly(r.provider) <=> cfg.readonly
                 /\ (r.op # "-" /\ r.err = "dav" /\ r.status = 403)
                      => isReadOnly(r.provider)


\* C33: the authenticator's nonce store is never written, and a Digest
\* header computed with the account's password is accepted whenever it is
\* sent: as the first request, before the server has issued any nonce,
\* and again when it is repeated.
C33_DigestReplayAccepted ==
    /\ managers.noncedict = {}
    /\ \A t \in Threads :
          LET r == req[t]
              realmname == getDomainRealm(r.provider)
          IN  (/\ r.pc \notin {"idle", "auth"} /\ r.err # "exc"
               /\ cfg.acceptdigest /\ realmname = RealmF
               /\ requireAuthentication(realmname)
               /\ r.hdr = ClientHeader(GoodDigest, r.method))
                => r.appCalled /\ r.user = "alice" /\ r.challenge = "-"

C33_Witness ==
    \E t \in Threads :
        /\ req[t].id = 2 /\ req[t].pc = "done"
        /\ req[t].hdr = ClientHeader(GoodDigest, req[t].method)
        /\ req[t].appCalled /\ req[t].user = "alice"
        /\ req[t].started = <<200>>


\* C34: a Digest request for a share realm R that names realm '/' (its
\* digest is computed for '/') reaches the application only if its user
\* is an account of R and the digest was computed with the password of
\* that account in R.
C34_RootLoginNeedsShareAccount ==
    \A t \in Threads :
        LET r == req[t]
            R == getDomainRealm(r.provider)
        IN  (/\ r.appCalled /\ r.hdr.scheme = "digest"
             /\ r.hdr.realm = RealmRoot
             /\ R # RealmRoot /\ \E a \in userMap : a.realm = R)
              => /\ \E a \in userMap :
                      /\ a.realm = R /\ a.user = r.hdr.user
                      /\ a.password = r.hdr.pass
                 /\ r.user = r.hdr.user /\ r.realm = R

C34_Witness ==
    \E t \in Threads :
        /\ req[t].pc = "done" /\ req[t].appCalled
        /\ getDomainRealm(req[t].provider) = RealmF
        /\ req[t].hdr =
              ClientHeader(DigestHeader("alice", RealmRoot, "pa"),
                           req[t].method)
        /\ req[t].user = "alice"



\* C35: for every request and every outcome (success, a DAVError raised
\* before the first body chunk, a DAVError raised after chunks were sent,
\* another exception) the server's start_response is called exactly once,
\* before the first body chunk: when the `finally` clause of
\* WsgiDAVApp.__call__ is reached, exactly one call has been made.
C35_StartResponseExactlyOnce ==
    \A t \in Threads :
        req[t].pc = "finally" => Len(req[t].started) = 1


\* C36: every batch opened while a request is handled, by the router or by
\* a provider's resource lookup, is committed, aborted or released by the
\* time the request ends (also when the routing checks fail after the batch
\* was opened): when WsgiDAVApp.__call__ is over, none of the batches the
\* request opened is still open.
C36_NoBatchOutlivesRequest ==
    \A t \in Threads :
        req[t].pc = "done" =>
            \A b \in req[t].opened : batches[b].state # "open"


\* C37: a request that the authenticator answers with 401 or 400 causes no
\* provider resource lookup and no change to repository content, dead
\* properties or locks: no step of such a request changes the committed
\* trees or the managers, the request holds no resource instance, it opens
\* no batch besides the router's, and that batch is unchanged and, until
\* the final commit, unused.
C37_RefusedTouchesNothing ==
    [][\A t \in Threads :
          (/\ req'[t] # req[t]
           /\ req'[t].status \in {400, 401}
           /\ ~req'[t].appCalled)
            => /\ managers' = managers
               /\ stores' = stores
               /\ req'[t].insts = {}
               /\ req'[t].opened = req[t].opened
               /\ \A b \in req'[t].opened :
                      /\ batches'[b].via = "router"
                      /\ ~batches'[b].dirty
                      /\ batches'[b].tree = batches'[b].base
                      /\ req'[t].pc # "done" => batches'[b].users = {}]_vars

\* C37 happens: a request on the archive share was answered with 401 by
\* the authenticator and its untouched batch was committed.
C37_Witness ==
    \E t \in Threads :
        /\ req[t].pc = "done"
        /\ req[t].started = <<401>>
        /\ ~req[t].appCalled
        /\ req[t].provider.kind = "archive"
        /\ req[t].insts = {}
        /\ \E b \in req[t].opened : batches[b].state = "committed"


\* C38: the authenticator is total on bad credentials: in a realm that
\* requires authentication every request with an Authorization header for
\* which the protected application is not called is answered with a 401
\* challenge or with 400, never with an exception.
C38_AuthenticatorTotal ==
    \A t \in Threads :
        LET r == req[t]
        IN  (/\ r.pc \notin {"idle", "auth"}
             /\ requireAuthentication(getDomainRealm(r.provider))
             /\ r.hdr.scheme # "none"
             /\ ~r.appCalled) =>
                /\ r.err = "none"
                /\ r.status \in {400, 401}
                /\ r.status = 401 => r.challenge \in {"basic", "digest"}


\* C39: the router forces 'Connection: close' on a response if and only
\* if a required Content-Length (method not HEAD, status >= 200 and not
\* 204 or 304) is missing or invalid or the request input was not
\* completely consumed; a HEAD, 204 or 304 response without Content-Length
\* does not by itself force the connection closed, and the header is never
\* added twice.
C39_ConnectionCloseIff ==
    \A t \in Threads :
        LET r == req[t]
            required == r.method # "HEAD" /\ r.status >= 200
                            /\ r.status \notin {204, 304}
            unread == r.body # 0 /\ 0 < r.written /\ r.written < r.body
            closes == {i \in DOMAIN r.conn : r.conn[i] = "close"}
        IN  r.started # <<>> =>
                /\ closes # {} <=> ((required /\ r.cl # "str") \/ unread)
                /\ Cardinality(closes) <= 1


\* C40: dead-property and lock changes made by a DELETE, COPY or MOVE take
\* effect together with the backend change: a request of these methods
\* whose batch was not committed has removed no lock and no dead property.
C40_ManagersFollowCommit ==
    \A t \in Threads :
        (/\ req[t].pc = "done"
         /\ req[t].method \in {"DELETE", "COPY", "MOVE"}
         /\ req[t].opened # {}
         /\ \A b \in req[t].opened : batches[b].state # "committed")
          => req[t].cleared = {}

=============================================================================
